---- MODULE Spec2Model ----
(***************************************************************************)
(* Verification model of the Delta Green command dispatcher                *)
(* (DeltaGreenInputProcessor, src/DAS-Delta-Green-Input-Script.js) and of  *)
(* the context manager (DeltaGreenContextManager,                          *)
(* src/DAS-Delta-Green-Context-Script.js).                                 *)
(*                                                                         *)
(* Text is modelled as a sequence of one-character strings, so that trim,  *)
(* the tokenizer's regular expression and toUpperCase are computed         *)
(* character by character as the JavaScript does.                          *)
(***************************************************************************)
EXTENDS Integers, Sequences, FiniteSets, TLC

VARIABLES
    commandRegistry,  \* this.commandRegistry : command name -> handler
    agentStates,      \* this.agentStates     : record id -> record
    actionLog,        \* this.actionLog       : sequence of audit entries
    threatLevel,      \* this.threatLevel
    now,              \* the host clock read by new Date() / Date.now()
    input,            \* argument of the most recent processCommand call
    outcome,          \* how the most recent call ended: "none", "returned", "threw"
    result,           \* value the most recent call returned (Null if it threw)
    raised,           \* TRUE iff the handler of the most recent call raised
    faults,           \* number of calls so far whose handler raised
    calls,            \* number of processCommand calls made so far
    logged,           \* every audit entry ever pushed, oldest first (history)
    line,             \* argument of the most recent direct tokenizeInput call
    lineTokens,       \* the array that call returned
    built,            \* TRUE iff the context manager's constructor completed
    agents,           \* this.agents        : agent id -> agent
    sanityTracker,    \* this.sanityTracker : agent id -> tracker
    lastOp,           \* the most recent context-manager call and how it ended
    opCount,          \* number of context-manager calls made so far
    teams,            \* this.teams     : team id -> team
    threats,          \* this.threats   : threat id -> threat
    narrative,        \* this.narrative : the four lists of narrative elements
    returned,         \* value the most recent context-manager call returned
    worldState,       \* this.worldState     : key -> value
    contextHistory,   \* this.contextHistory : the snapshots built so far
    dasCount,         \* number of calls made on the DAS_Agent so far
    dasAgent,         \* a DAS_Agent: its name, this.sanity and this.bonds
    dasOp             \* the most recent call on the DAS_Agent

dispatcherVars ==
    <<commandRegistry, agentStates, actionLog, threatLevel, now, input,
      outcome, result, raised, faults, calls, logged>>

tokenizerVars ==
    <<line, lineTokens>>

contextVars ==
    <<opCount, built, agents, sanityTracker, teams, threats, narrative,
      lastOp, returned, worldState, contextHistory>>

agentVars ==
    <<dasCount, dasAgent, dasOp>>

vars ==
    <<dispatcherVars, tokenizerVars, contextVars, agentVars>>

----------------------------------------------------------------------------
(* Bounds of the model *)

\* number of processCommand calls explored from the constructor's state
MaxCalls ==
    2

\* number of registerCommand calls made by the host
MaxRegs ==
    1

\* largest value of the host clock
MaxNow ==
    1

\* number of calls explored once the threat level is the only concern
MaxThreatCalls ==
    3

\* number of context-manager calls explored
MaxCtxOps ==
    3

\* number of calls on a DAS_Agent explored
MaxAgentOps ==
    3

\* longest text handed to tokenizeInput directly
MaxTextLen ==
    4

\* number of scripted commands that precede the status reports
StatusFill ==
    4

\* number of calls explored after those scripted commands
MaxStatusCalls ==
    3

\* number of commands that have filled the audit log beforehand
LogFill ==
    99

\* number of calls explored after the audit log has been filled
MaxTailCalls ==
    6

----------------------------------------------------------------------------
(* JavaScript string primitives *)

Quote ==
    "\""

\* the characters matched by \s and stripped by String.prototype.trim
WhiteSpace ==
    {" ", "\t"}

UpperOf ==
    [a |-> "A", b |-> "B", c |-> "C", d |-> "D", e |-> "E", f |-> "F",
     g |-> "G", h |-> "H", i |-> "I", j |-> "J", k |-> "K", l |-> "L",
     m |-> "M", n |-> "N", o |-> "O", p |-> "P", q |-> "Q", r |-> "R",
     s |-> "S", t |-> "T", u |-> "U", v |-> "V", w |-> "W", x |-> "X",
     y |-> "Y", z |-> "Z"]

toUpperCase(s) ==
    [i \in 1..Len(s) |-> IF s[i] \in DOMAIN UpperOf THEN UpperOf[s[i]] ELSE s[i]]

RECURSIVE trimStart(_)
trimStart(s) ==
    IF s # <<>> /\ Head(s) \in WhiteSpace THEN trimStart(Tail(s)) ELSE s

RECURSIVE trimEnd(_)
trimEnd(s) ==
    IF s # <<>> /\ s[Len(s)] \in WhiteSpace
    THEN trimEnd(SubSeq(s, 1, Len(s) - 1))
    ELSE s

trim(s) ==
    trimEnd(trimStart(s))

\* String.prototype.includes
includes(s, k) ==
    \E i \in 1..(Len(s) - Len(k) + 1) : SubSeq(s, i, i + Len(k) - 1) = k

\* Array.prototype.join(' ')
RECURSIVE join(_)
join(parts) ==
    IF parts = <<>> THEN <<>>
    ELSE IF Len(parts) = 1 THEN parts[1]
    ELSE parts[1] \o <<" ">> \o join(Tail(parts))

\* a parameter the caller did not supply (undefined); like the empty string
\* it is falsy, and no token is ever empty
Undefined ==
    <<>>

\* the i-th positional parameter of handler(...args)
Arg(args, i) ==
    IF i <= Len(args) THEN args[i] ELSE Undefined

\* a rest parameter: the arguments from position i on
Rest(args, i) ==
    SubSeq(args, i, Len(args))

\* the value null
Null ==
    [null |-> TRUE]

----------------------------------------------------------------------------
(* tokenizeInput: the matches of the regular expression, left to right:    *)
(* either a maximal run of characters that are neither white space nor a    *)
(* double quote, or a double quote, the characters up to the next double    *)
(* quote (captured as match[1]) and that double quote.                      *)

\* end of the maximal run of non-space, non-quote characters starting at i
RECURSIVE RunEnd(_, _)
RunEnd(s, i) ==
    IF i < Len(s) /\ s[i + 1] \notin WhiteSpace /\ s[i + 1] # Quote
    THEN RunEnd(s, i + 1)
    ELSE i

\* position of the first quote after i, or 0 when there is none
CloseQuote(s, i) ==
    IF \E k \in (i + 1)..Len(s) : s[k] = Quote
    THEN CHOOSE k \in (i + 1)..Len(s) :
             s[k] = Quote /\ \A m \in (i + 1)..(k - 1) : s[m] # Quote
    ELSE 0

RECURSIVE Scan(_, _, _)
Scan(s, i, tokens) ==
    IF i > Len(s) THEN tokens
    ELSE IF s[i] \notin WhiteSpace /\ s[i] # Quote
    THEN \* first alternative: match[1] is undefined, the token is match[0]
         Scan(s, RunEnd(s, i) + 1, Append(tokens, SubSeq(s, i, RunEnd(s, i))))
    ELSE IF s[i] = Quote /\ CloseQuote(s, i) # 0
    THEN \* second alternative: match[1] || match[0]
         LET k == CloseQuote(s, i)
             inner == SubSeq(s, i + 1, k - 1)
         IN  Scan(s, k + 1,
                  Append(tokens, IF inner # <<>> THEN inner ELSE SubSeq(s, i, k)))
    ELSE \* no match at i: the search moves on by one character
         Scan(s, i + 1, tokens)

tokenizeInput(s) ==
    Scan(s, 1, <<>>)

(* Command names, severities and keywords, spelled as character sequences *)

w_INVESTIGATE ==
    <<"I", "N", "V", "E", "S", "T", "I", "G", "A", "T", "E">>

w_ENGAGE ==
    <<"E", "N", "G", "A", "G", "E">>

w_RETREAT ==
    <<"R", "E", "T", "R", "E", "A", "T">>

w_CONTAIN ==
    <<"C", "O", "N", "T", "A", "I", "N">>

w_RESEARCH ==
    <<"R", "E", "S", "E", "A", "R", "C", "H">>

w_STATUS ==
    <<"S", "T", "A", "T", "U", "S">>

w_DEBRIEF ==
    <<"D", "E", "B", "R", "I", "E", "F">>

w_REPORT ==
    <<"R", "E", "P", "O", "R", "T">>

w_ALERT ==
    <<"A", "L", "E", "R", "T">>

w_ESCALATE ==
    <<"E", "S", "C", "A", "L", "A", "T", "E">>

w_SANITIZE ==
    <<"S", "A", "N", "I", "T", "I", "Z", "E">>

w_HELP ==
    <<"H", "E", "L", "P">>

w_CONFIG ==
    <<"C", "O", "N", "F", "I", "G">>

w_CRITICAL ==
    <<"C", "R", "I", "T", "I", "C", "A", "L">>

w_HIGH ==
    <<"H", "I", "G", "H">>

w_MEDIUM ==
    <<"M", "E", "D", "I", "U", "M">>

w_LOW ==
    <<"L", "O", "W">>

w_ANOMALY ==
    <<"A", "N", "O", "M", "A", "L", "Y">>

w_ENTITY ==
    <<"E", "N", "T", "I", "T", "Y">>

w_HOSTILE ==
    <<"H", "O", "S", "T", "I", "L", "E">>

w_UNKNOWN ==
    <<"U", "N", "K", "N", "O", "W", "N">>

----------------------------------------------------------------------------
(* Values built by the handlers *)

\* a message: a fixed text followed by an interpolated value (${...})
Msg(text, arg) ==
    [text |-> text, arg |-> arg]

\* what a call of a handler produces: the dispatcher it leaves behind and
\* either the value it returned or the message of the error it raised
Returns(self, res) ==
    [self |-> self, result |-> res, threw |-> FALSE, error |-> ""]

Throws(self, reason) ==
    [self |-> self, result |-> Null, threw |-> TRUE, error |-> reason]

formatResponse(status, message, data, t) ==
    [status |-> status, message |-> message, data |-> data, timestamp |-> t]

\* `DG-${Date.now()}-${Math.random().toString(36).substr(2, 9)}`
generateId(t, rnd) ==
    <<"D", "G", "-", ToString(t), "-", ToString(rnd)>>

\* Map.prototype.set
MapSet(m, k, v) ==
    [x \in (DOMAIN m) \cup {k} |-> IF x = k THEN v ELSE m[x]]

\* variant: the severity is looked up as typed, without upper-casing
calculateThreatLevel_caseSensitive(severity) ==
    IF severity = w_CRITICAL THEN "CRITICAL"
    ELSE IF severity \in {w_HIGH, w_MEDIUM} THEN "ELEVATED"
    ELSE "NORMAL"

calculateThreatLevel(severity) ==
    LET levels == << <<w_CRITICAL, "CRITICAL">>, <<w_HIGH, "ELEVATED">>,
                     <<w_MEDIUM, "ELEVATED">>, <<w_LOW, "NORMAL">> >>
        key == toUpperCase(severity)
    IN  IF \E i \in 1..Len(levels) : levels[i][1] = key
        THEN (CHOOSE p \in {levels[i] : i \in 1..Len(levels)} : p[1] = key)[2]
        ELSE "NORMAL"

\* variant: the table has no entry for CRITICAL, the lookup gives undefined
escalateThreatLevel_noTop(self) ==
    LET escalation == [NORMAL |-> "ELEVATED", ELEVATED |-> "CRITICAL"]
    IN  [self EXCEPT !.threatLevel =
            IF self.threatLevel \in DOMAIN escalation
            THEN escalation[self.threatLevel] ELSE "undefined"]

\* variant: the table wraps around at the top
escalateThreatLevel_wraps(self) ==
    LET escalation == [NORMAL |-> "ELEVATED", ELEVATED |-> "CRITICAL",
                       CRITICAL |-> "NORMAL"]
    IN  [self EXCEPT !.threatLevel = escalation[self.threatLevel]]

escalateThreatLevel(self) ==
    LET escalation == [NORMAL |-> "ELEVATED", ELEVATED |-> "CRITICAL",
                       CRITICAL |-> "CRITICAL"]
    IN  [self EXCEPT !.threatLevel = escalation[self.threatLevel]]

\* variant: the keywords are looked for in the threat text as typed
checkThreatLevel_caseSensitive(self, threat) ==
    LET threatKeywords == {w_ANOMALY, w_ENTITY, w_HOSTILE, w_UNKNOWN}
    IN  IF \E keyword \in threatKeywords : includes(threat, keyword)
        THEN [self EXCEPT !.threatLevel = "ELEVATED"]
        ELSE self

checkThreatLevel(self, threat) ==
    LET threatKeywords == {w_ANOMALY, w_ENTITY, w_HOSTILE, w_UNKNOWN}
    IN  IF \E keyword \in threatKeywords : includes(toUpperCase(threat), keyword)
        THEN [self EXCEPT !.threatLevel = "ELEVATED"]
        ELSE self

\* variant: the trim keeps the oldest 100 entries, slice(0, 100)
logAction_keepsOldest(self, command, args, res, t) ==
    LET pushed == Append(self.actionLog,
                         [timestamp |-> t, command |-> command,
                          args |-> args, status |-> res.status])
        entry == pushed[Len(pushed)]
    IN  [self EXCEPT !.actionLog =
                         IF Len(pushed) > 100
                         THEN SubSeq(pushed, 1, 100)
                         ELSE pushed,
                     !.logged = Append(self.logged, entry)]

logAction(self, command, args, res, t) ==
    LET pushed == Append(self.actionLog,
                         [timestamp |-> t, command |-> command,
                          args |-> args, status |-> res.status])
        entry == pushed[Len(pushed)]
    IN  [self EXCEPT !.actionLog =
                         IF Len(pushed) > 100
                         THEN SubSeq(pushed, Len(pushed) - 100 + 1, Len(pushed))
                         ELSE pushed,
                     !.logged = Append(self.logged, entry)]

generateHelpText(command) ==
    LET commands == {w_INVESTIGATE, w_ENGAGE, w_RETREAT, w_CONTAIN, w_RESEARCH,
                     w_STATUS, w_DEBRIEF, w_REPORT, w_ALERT, w_ESCALATE,
                     w_SANITIZE, w_HELP, w_CONFIG}
    IN  IF command # Undefined
        THEN IF toUpperCase(command) \in commands
             THEN Msg("usage of", toUpperCase(command))
             ELSE Msg("Command not found", <<>>)
        ELSE Msg("usage of every command", <<>>)

----------------------------------------------------------------------------
(* The handlers.  Each takes the dispatcher, the argument tokens, the clock  *)
(* value its new Date() calls read and the random draw of generateId.        *)

handleInvestigate(self, args, t, rnd) ==
    LET target == Arg(args, 1)
        details == Rest(args, 2)
        investigation == [id |-> generateId(t, rnd), target |-> target,
                          details |-> join(details), status |-> "ACTIVE",
                          timestamp |-> t, findings |-> <<>>]
    IN  IF target = Undefined
        THEN Returns(self, formatResponse("ERROR",
                 Msg("INVESTIGATE requires a target", <<>>), Null, t))
        ELSE Returns(
                 [self EXCEPT !.agentStates =
                      MapSet(self.agentStates, investigation.id, investigation)],
                 formatResponse("SUCCESS",
                     Msg("Investigation initiated: ", investigation.id),
                     [investigation |-> investigation], t))

handleEngage(self, args, t, rnd) ==
    LET agentId == Arg(args, 1)
        threat == Arg(args, 2)
        modifiers == Rest(args, 3)
        engagementLog == [agentId |-> agentId, threat |-> threat,
                          modifiers |-> join(modifiers), timestamp |-> t,
                          outcome |-> "PENDING"]
    IN  IF agentId = Undefined \/ threat = Undefined
        THEN Returns(self, formatResponse("ERROR",
                 Msg("ENGAGE requires agent ID and threat designation", <<>>),
                 Null, t))
        ELSE Returns(checkThreatLevel(self, threat),
                 formatResponse("SUCCESS",
                     Msg("Engagement directive processed", <<>>),
                     [engagement |-> engagementLog], t))

handleRetreat(self, args, t, rnd) ==
    LET agentId == Arg(args, 1)
        reason == Arg(args, 2)
        retreatOrder == [agentId |-> agentId,
                         reason |-> IF reason # Undefined THEN reason
                                    ELSE <<"Tactical withdrawal">>,
                         timestamp |-> t, status |-> "EXECUTED"]
    IN  IF agentId = Undefined
        THEN Returns(self, formatResponse("ERROR",
                 Msg("RETREAT requires agent ID", <<>>), Null, t))
        ELSE Returns(self, formatResponse("SUCCESS",
                 Msg("Retreat order processed", <<>>),
                 [retreat |-> retreatOrder], t))

\* variant: the threat level is recomputed before the argument check
handleContain_validatesLate(self, args, t, rnd) ==
    LET objectType == Arg(args, 1)
        severity == Arg(args, 2)
        containmentMeasures == Rest(args, 3)
        containment == [id |-> generateId(t, rnd), objectType |-> objectType,
                        severity |-> IF severity # Undefined THEN severity
                                     ELSE w_UNKNOWN,
                        measures |-> join(containmentMeasures),
                        status |-> "INITIATED", timestamp |-> t]
        updated == [self EXCEPT !.threatLevel = calculateThreatLevel(severity)]
    IN  IF objectType = Undefined
        THEN Returns(updated, formatResponse("ERROR",
                 Msg("CONTAIN requires object type and severity level", <<>>),
                 Null, t))
        ELSE Returns(updated,
                 formatResponse("SUCCESS",
                     Msg("Containment protocol activated", <<>>),
                     [containment |-> containment], t))

handleContain(self, args, t, rnd) ==
    LET objectType == Arg(args, 1)
        severity == Arg(args, 2)
        containmentMeasures == Rest(args, 3)
        containment == [id |-> generateId(t, rnd), objectType |-> objectType,
                        severity |-> IF severity # Undefined THEN severity
                                     ELSE w_UNKNOWN,
                        measures |-> join(containmentMeasures),
                        status |-> "INITIATED", timestamp |-> t]
    IN  IF objectType = Undefined
        THEN Returns(self, formatResponse("ERROR",
                 Msg("CONTAIN requires object type and severity level", <<>>),
                 Null, t))
        ELSE Returns(
                 [self EXCEPT !.threatLevel = calculateThreatLevel(severity)],
                 formatResponse("SUCCESS",
                     Msg("Containment protocol activated", <<>>),
                     [containment |-> containment], t))

handleResearch(self, args, t, rnd) ==
    LET subject == Arg(args, 1)
        parameters == Rest(args, 2)
        research == [id |-> generateId(t, rnd), subject |-> subject,
                     parameters |-> join(parameters),
                     status |-> "IN_PROGRESS", timestamp |-> t,
                     results |-> Null]
    IN  IF subject = Undefined
        THEN Returns(self, formatResponse("ERROR",
                 Msg("RESEARCH requires a subject", <<>>), Null, t))
        ELSE Returns(
                 [self EXCEPT !.agentStates =
                      MapSet(self.agentStates, research.id, research)],
                 formatResponse("SUCCESS",
                     Msg("Research directive established", <<>>),
                     [research |-> research], t))

\* variant: slice(0, 5), the oldest five entries
RecentActions_oldest(log) ==
    SubSeq(log, 1, IF Len(log) > 5 THEN 5 ELSE Len(log))

\* this.actionLog.slice(-5)
RecentActions(log) ==
    SubSeq(log, IF Len(log) > 5 THEN Len(log) - 5 + 1 ELSE 1, Len(log))

handleStatus(self, args, t, rnd) ==
    LET agentId == Arg(args, 1)
        statusReport == [timestamp |-> t, threatLevel |-> self.threatLevel,
                         activeOperations |-> Cardinality(DOMAIN self.agentStates),
                         recentActions |-> RecentActions(self.actionLog)]
    IN  Returns(self, formatResponse("SUCCESS",
            Msg("Status report generated", <<>>),
            IF agentId # Undefined /\ agentId \in DOMAIN self.agentStates
            THEN [timestamp |-> statusReport.timestamp,
                  threatLevel |-> statusReport.threatLevel,
                  activeOperations |-> statusReport.activeOperations,
                  recentActions |-> statusReport.recentActions,
                  agentStatus |-> self.agentStates[agentId]]
            ELSE statusReport, t))

handleDebrief(self, args, t, rnd) ==
    LET agentId == Arg(args, 1)
        observations == Rest(args, 2)
        debrief == [agentId |-> agentId, timestamp |-> t,
                    observations |-> join(observations),
                    mentalpStatus |-> "PENDING_EVALUATION",
                    recordId |-> generateId(t, rnd)]
    IN  IF agentId = Undefined
        THEN Returns(self, formatResponse("ERROR",
                 Msg("DEBRIEF requires agent ID", <<>>), Null, t))
        ELSE Returns(self, formatResponse("SUCCESS",
                 Msg("Debrief recorded", <<>>), [debrief |-> debrief], t))

handleReport(self, args, t, rnd) ==
    LET reportType == Arg(args, 1)
        details == Rest(args, 2)
        report == [type |-> IF reportType # Undefined THEN reportType
                            ELSE <<"GENERAL">>,
                   timestamp |-> t, details |-> join(details),
                   classification |-> "DELTA_GREEN",
                   reportId |-> generateId(t, rnd)]
    IN  Returns(self, formatResponse("SUCCESS",
            Msg("Report generated", <<>>), [report |-> report], t))

\* variant: an alert raises the level to ELEVATED but never lowers it
handleAlert_neverLowers(self, args, t, rnd) ==
    LET threatType == Arg(args, 1)
        location == Arg(args, 2)
        alert == [id |-> generateId(t, rnd), threatType |-> threatType,
                  location |-> IF location # Undefined THEN location
                               ELSE w_UNKNOWN,
                  timestamp |-> t, status |-> "ISSUED"]
    IN  IF threatType = Undefined
        THEN Returns(self, formatResponse("ERROR",
                 Msg("ALERT requires threat type", <<>>), Null, t))
        ELSE Returns([self EXCEPT !.threatLevel =
                          IF self.threatLevel = "CRITICAL" THEN "CRITICAL"
                          ELSE "ELEVATED"],
                 formatResponse("SUCCESS",
                     Msg("Alert issued to network", <<>>),
                     [alert |-> alert], t))

handleAlert(self, args, t, rnd) ==
    LET threatType == Arg(args, 1)
        location == Arg(args, 2)
        alert == [id |-> generateId(t, rnd), threatType |-> threatType,
                  location |-> IF location # Undefined THEN location
                               ELSE w_UNKNOWN,
                  timestamp |-> t, status |-> "ISSUED"]
    IN  IF threatType = Undefined
        THEN Returns(self, formatResponse("ERROR",
                 Msg("ALERT requires threat type", <<>>), Null, t))
        ELSE Returns([self EXCEPT !.threatLevel = "ELEVATED"],
                 formatResponse("SUCCESS",
                     Msg("Alert issued to network", <<>>),
                     [alert |-> alert], t))

handleEscalate(self, args, t, rnd) ==
    LET reason == Arg(args, 1)
        after == escalateThreatLevel(self)
        escalation == [previousLevel |-> self.threatLevel,
                       newLevel |-> after.threatLevel,
                       reason |-> IF reason # Undefined THEN reason
                                  ELSE <<"Unspecified">>,
                       timestamp |-> t]
    IN  Returns(after, formatResponse("SUCCESS",
            Msg("Threat level escalated", <<>>),
            [escalation |-> escalation], t))

handleSanitize(self, args, t, rnd) ==
    LET target == Arg(args, 1)
        methods == Rest(args, 2)
        sanitization == [id |-> generateId(t, rnd), target |-> target,
                         methods |-> join(methods), timestamp |-> t,
                         status |-> "PROCESSING"]
    IN  IF target = Undefined
        THEN Returns(self, formatResponse("ERROR",
                 Msg("SANITIZE requires a target", <<>>), Null, t))
        ELSE Returns(self, formatResponse("SUCCESS",
                 Msg("Sanitization operation initiated", <<>>),
                 [sanitization |-> sanitization], t))

handleHelp(self, args, t, rnd) ==
    LET command == Arg(args, 1)
        helpText == generateHelpText(command)
    IN  Returns(self, formatResponse("SUCCESS",
            Msg("Help information", <<>>), [help |-> helpText], t))

handleConfig(self, args, t, rnd) ==
    LET setting == Arg(args, 1)
        value == Rest(args, 2)
        config == [setting |-> setting, value |-> join(value),
                   timestamp |-> t]
    IN  IF setting = Undefined
        THEN Returns(self, formatResponse("ERROR",
                 Msg("CONFIG requires a setting name", <<>>), Null, t))
        ELSE Returns(self, formatResponse("SUCCESS",
                 Msg("Configuration updated", <<>>), [config |-> config], t))

----------------------------------------------------------------------------
(* The command lines the host sends *)

\* ''
in_empty ==
    <<>>

\* '  '
in_blank ==
    <<" ", " ">>

\* "
in_quote ==
    <<"\"">>

\* INVESTIGATE
in_investigate ==
    <<"I", "N", "V", "E", "S", "T", "I", "G", "A", "T", "E">>

\* investigate lab
in_investigate_lab ==
    <<"i", "n", "v", "e", "s", "t", "i", "g", "a", "t", "e", " ", "l", "a", "b">>

\* ENGAGE
in_engage ==
    <<"E", "N", "G", "A", "G", "E">>

\* ENGAGE A1
in_engage_a1 ==
    <<"E", "N", "G", "A", "G", "E", " ", "A", "1">>

\* ENGAGE A1 "an entity"
in_engage_entity ==
    <<"E", "N", "G", "A", "G", "E", " ", "A", "1", " ", "\"", "a", "n", " ", "e", "n", "t", "i", "t", "y", "\"">>

\* ENGAGE A1 cultist
in_engage_cultist ==
    <<"E", "N", "G", "A", "G", "E", " ", "A", "1", " ", "c", "u", "l", "t", "i", "s", "t">>

\* RETREAT
in_retreat ==
    <<"R", "E", "T", "R", "E", "A", "T">>

\* CONTAIN
in_contain ==
    <<"C", "O", "N", "T", "A", "I", "N">>

\* CONTAIN orb
in_contain_orb ==
    <<"C", "O", "N", "T", "A", "I", "N", " ", "o", "r", "b">>

\* CONTAIN orb CRITICAL
in_contain_critical ==
    <<"C", "O", "N", "T", "A", "I", "N", " ", "o", "r", "b", " ", "C", "R", "I", "T", "I", "C", "A", "L">>

\* contain orb high
in_contain_high ==
    <<"c", "o", "n", "t", "a", "i", "n", " ", "o", "r", "b", " ", "h", "i", "g", "h">>

\* CONTAIN orb Medium
in_contain_medium ==
    <<"C", "O", "N", "T", "A", "I", "N", " ", "o", "r", "b", " ", "M", "e", "d", "i", "u", "m">>

\* CONTAIN orb LOW
in_contain_low ==
    <<"C", "O", "N", "T", "A", "I", "N", " ", "o", "r", "b", " ", "L", "O", "W">>

\* CONTAIN orb odd
in_contain_odd ==
    <<"C", "O", "N", "T", "A", "I", "N", " ", "o", "r", "b", " ", "o", "d", "d">>

\* RESEARCH
in_research ==
    <<"R", "E", "S", "E", "A", "R", "C", "H">>

\* DEBRIEF
in_debrief ==
    <<"D", "E", "B", "R", "I", "E", "F">>

\* ALERT
in_alert ==
    <<"A", "L", "E", "R", "T">>

\* ALERT cult
in_alert_cult ==
    <<"A", "L", "E", "R", "T", " ", "c", "u", "l", "t">>

\* SANITIZE
in_sanitize ==
    <<"S", "A", "N", "I", "T", "I", "Z", "E">>

\* CONFIG
in_config ==
    <<"C", "O", "N", "F", "I", "G">>

\* ESCALATE
in_escalate ==
    <<"E", "S", "C", "A", "L", "A", "T", "E">>

\* STATUS
in_status ==
    <<"S", "T", "A", "T", "U", "S">>

\* HELP
in_help ==
    <<"H", "E", "L", "P">>

\* unknowncmd
in_unknowncmd ==
    <<"u", "n", "k", "n", "o", "w", "n", "c", "m", "d">>

\* probe
in_probe ==
    <<"p", "r", "o", "b", "e">>

Inputs ==
    {in_empty, in_blank, in_quote, in_unknowncmd, in_probe,
     in_investigate, in_investigate_lab, in_engage, in_engage_a1,
     in_retreat, in_contain, in_research, in_debrief, in_alert,
     in_sanitize, in_config, in_escalate, in_status}

----------------------------------------------------------------------------
(* The dispatcher *)

BuiltinHandlers ==
    {"handleInvestigate", "handleEngage", "handleRetreat", "handleContain",
     "handleResearch", "handleStatus", "handleDebrief", "handleReport",
     "handleAlert", "handleEscalate", "handleSanitize", "handleHelp",
     "handleConfig"}

\* handlers the host passes to registerCommand: one that raises
\* new Error("handler fault") when called
HostHandlers ==
    {"hostFaulty"}

hostFaulty(self, args, t, rnd) ==
    Throws(self, "handler fault")

registerCommand(registry, command, handler) ==
    MapSet(registry, toUpperCase(command), handler)

initializeCommands ==
    LET table == << <<w_INVESTIGATE, "handleInvestigate">>,
                    <<w_ENGAGE, "handleEngage">>,
                    <<w_RETREAT, "handleRetreat">>,
                    <<w_CONTAIN, "handleContain">>,
                    <<w_RESEARCH, "handleResearch">>,
                    <<w_STATUS, "handleStatus">>,
                    <<w_DEBRIEF, "handleDebrief">>,
                    <<w_REPORT, "handleReport">>,
                    <<w_ALERT, "handleAlert">>,
                    <<w_ESCALATE, "handleEscalate">>,
                    <<w_SANITIZE, "handleSanitize">>,
                    <<w_HELP, "handleHelp">>,
                    <<w_CONFIG, "handleConfig">> >>
    IN  [c \in {table[i][1] : i \in 1..Len(table)} |->
            (CHOOSE p \in {table[i] : i \in 1..Len(table)} : p[1] = c)[2]]

\* handler(...args)
CallHandler(handler, self, args, t, rnd) ==
    CASE handler = "handleInvestigate" -> handleInvestigate(self, args, t, rnd)
      [] handler = "handleEngage" -> handleEngage(self, args, t, rnd)
      [] handler = "handleRetreat" -> handleRetreat(self, args, t, rnd)
      [] handler = "handleContain" -> handleContain(self, args, t, rnd)
      [] handler = "handleResearch" -> handleResearch(self, args, t, rnd)
      [] handler = "handleStatus" -> handleStatus(self, args, t, rnd)
      [] handler = "handleDebrief" -> handleDebrief(self, args, t, rnd)
      [] handler = "handleReport" -> handleReport(self, args, t, rnd)
      [] handler = "handleAlert" -> handleAlert(self, args, t, rnd)
      [] handler = "handleEscalate" -> handleEscalate(self, args, t, rnd)
      [] handler = "handleSanitize" -> handleSanitize(self, args, t, rnd)
      [] handler = "handleHelp" -> handleHelp(self, args, t, rnd)
      [] handler = "handleConfig" -> handleConfig(self, args, t, rnd)
      [] handler = "hostFaulty" -> hostFaulty(self, args, t, rnd)

\* how a processCommand call ends: the dispatcher it leaves behind, whether
\* it returned or let an error escape, the value returned, and whether the
\* handler raised
Ended(self, how, res, handlerRaised) ==
    [self |-> self, outcome |-> how, result |-> res, raised |-> handlerRaised]

\* variants of processCommand, differing from it in one step each:
\*   trims     - the input is trimmed before the emptiness test
\*   folds     - the command name is upper-cased in the error message
\*   catches   - an error raised by the handler is caught
\*   logsFault - the catch path also calls logAction
processCommandVariant(self, in, t, rnd, trims, folds, catches, logsFault) ==
    LET trimmedInput == IF trims THEN trim(in) ELSE in
        tokens == tokenizeInput(trimmedInput)
    IN  IF trimmedInput = <<>>
        THEN Ended(self, "returned",
                 formatResponse("ERROR", Msg("No command provided", <<>>),
                                Null, t), FALSE)
        ELSE IF tokens = <<>>
        THEN Ended(self, "threw", Null, FALSE)
        ELSE LET command == toUpperCase(tokens[1])
                 args == Tail(tokens)
             IN  IF command \notin DOMAIN self.commandRegistry
                 THEN Ended(self, "returned",
                          formatResponse("ERROR",
                              Msg("Unknown command: ",
                                  IF folds THEN command ELSE tokens[1]),
                              Null, t),
                          FALSE)
                 ELSE LET r == CallHandler(self.commandRegistry[command],
                                           self, args, t, rnd)
                          failed == formatResponse("ERROR",
                                        Msg("Command execution failed: ",
                                            <<r.error>>), Null, t)
                      IN  IF r.threw
                          THEN IF ~catches
                               THEN Ended(self, "threw", Null, TRUE)
                               ELSE IF logsFault
                               THEN Ended(logAction(self, command, args,
                                                    failed, t),
                                          "returned", failed, TRUE)
                               ELSE Ended(self, "returned", failed, TRUE)
                          ELSE Ended(logAction(r.self, command, args,
                                               r.result, t),
                                     "returned", r.result, FALSE)

\* variant: no try/catch around the handler call
processCommand_noCatch(self, in, t, rnd) ==
    processCommandVariant(self, in, t, rnd, TRUE, TRUE, FALSE, FALSE)

\* variant: logAction is reached on the catch path as well
processCommand_logsFaults(self, in, t, rnd) ==
    processCommandVariant(self, in, t, rnd, TRUE, TRUE, TRUE, TRUE)

\* variant: the error message quotes the command as typed
processCommand_rawName(self, in, t, rnd) ==
    processCommandVariant(self, in, t, rnd, TRUE, FALSE, TRUE, FALSE)

\* variant: the emptiness test is made on the untrimmed input
processCommand_noTrim(self, in, t, rnd) ==
    processCommandVariant(self, in, t, rnd, FALSE, TRUE, TRUE, FALSE)

processCommand(self, in, t, rnd) ==
    LET trimmedInput == trim(in)
        tokens == tokenizeInput(trimmedInput)
    IN  IF trimmedInput = <<>>
        THEN Ended(self, "returned",
                 formatResponse("ERROR", Msg("No command provided", <<>>),
                                Null, t), FALSE)
        ELSE IF tokens = <<>>
        THEN \* tokens[0] is undefined: toUpperCase raises a TypeError
             \* outside the try block
             Ended(self, "threw", Null, FALSE)
        ELSE LET command == toUpperCase(tokens[1])
                 args == Tail(tokens)
             IN  IF command \notin DOMAIN self.commandRegistry
                 THEN Ended(self, "returned",
                          formatResponse("ERROR",
                              Msg("Unknown command: ", command), Null, t),
                          FALSE)
                 ELSE LET r == CallHandler(self.commandRegistry[command],
                                           self, args, t, rnd)
                      IN  IF r.threw
                          THEN Ended(self, "returned",
                                   formatResponse("ERROR",
                                       Msg("Command execution failed: ",
                                           <<r.error>>), Null, t), TRUE)
                          ELSE Ended(logAction(r.self, command, args,
                                               r.result, t),
                                     "returned", r.result, FALSE)

----------------------------------------------------------------------------
(* State machine *)

\* the dispatcher object held in the variables
Self ==
    [commandRegistry |-> commandRegistry, agentStates |-> agentStates,
     actionLog |-> actionLog, threatLevel |-> threatLevel, logged |-> logged]

\* the object the constructor builds
constructor ==
    [commandRegistry |-> initializeCommands, agentStates |-> <<>>,
     actionLog |-> <<>>, threatLevel |-> "NORMAL", logged |-> <<>>]

\* names under which the host registers its own handlers
RegNames ==
    {in_probe}

\* the values Math.random() is taken to produce
Rnd ==
    {0, 1}

Init ==
    /\ commandRegistry = constructor.commandRegistry
    /\ agentStates = constructor.agentStates
    /\ actionLog = constructor.actionLog
    /\ threatLevel = constructor.threatLevel
    /\ logged = constructor.logged
    /\ now = 0
    /\ input = <<>>
    /\ outcome = "none"
    /\ result = Null
    /\ raised = FALSE
    /\ faults = 0
    /\ calls = 0
    /\ line = <<>>
    /\ lineTokens = <<>>
    /\ built = TRUE
    /\ agents = <<>>
    /\ sanityTracker = <<>>
    /\ lastOp = [name |-> "constructor", id |-> "", arg |-> <<>>,
                 threw |-> FALSE]
    /\ opCount = 0
    /\ teams = <<>>
    /\ threats = <<>>
    /\ narrative = [scenes |-> <<>>, atmosphere |-> <<>>, clues |-> <<>>,
                    revelations |-> <<>>]
    /\ returned = <<>>
    /\ worldState = <<>>
    /\ contextHistory = <<>>
    /\ dasCount = 0
    /\ dasAgent = [name |-> "New Agent",
                   sanity |-> [current |-> 70, maximum |-> 100,
                               breakdown |-> FALSE, breakdownDuration |-> 0,
                               temporaryLoss |-> 0, permanentLoss |-> 0],
                   bonds |-> <<>>]
    /\ dasOp = [name |-> "constructor"]

\* time passes between two calls
Tick ==
    /\ now < MaxNow
    /\ now' = now + 1
    /\ UNCHANGED <<commandRegistry, agentStates, actionLog, threatLevel,
                   input, outcome, result, raised, faults, calls, logged>>
    /\ UNCHANGED <<tokenizerVars, contextVars, agentVars>>

\* the host calls registerCommand(command, handler)
Register(command, handler) ==
    /\ Cardinality({c \in DOMAIN commandRegistry :
                       commandRegistry[c] \in HostHandlers}) < MaxRegs
    /\ commandRegistry' = registerCommand(commandRegistry, command, handler)
    /\ UNCHANGED <<agentStates, actionLog, threatLevel, now, input, outcome,
                   result, raised, faults, calls, logged>>
    /\ UNCHANGED <<tokenizerVars, contextVars, agentVars>>

\* the host calls processCommand(in)
Process(in, rnd) ==
    LET r == processCommand(Self, in, now, rnd)
    IN  /\ commandRegistry' = r.self.commandRegistry
        /\ agentStates' = r.self.agentStates
        /\ actionLog' = r.self.actionLog
        /\ threatLevel' = r.self.threatLevel
        /\ logged' = r.self.logged
        /\ input' = in
        /\ outcome' = r.outcome
        /\ result' = r.result
        /\ raised' = r.raised
        /\ faults' = IF r.raised THEN faults + 1 ELSE faults
        /\ calls' = calls + 1
        /\ now' = now
        /\ UNCHANGED <<tokenizerVars, contextVars, agentVars>>

Command ==
    \E in \in Inputs, rnd \in Rnd : calls < MaxCalls /\ Process(in, rnd)

HostRegisters ==
    \E command \in RegNames, handler \in HostHandlers :
        Register(command, handler)

Next ==
    \/ HostRegisters
    \/ Command

Spec ==
    Init /\ [][Next]_vars

----------------------------------------------------------------------------
(* Threat level only: the commands that act on this.threatLevel *)

ThreatInputs ==
    {in_escalate, in_contain_orb, in_contain_critical, in_contain_high,
     in_contain_medium, in_contain_low, in_contain_odd, in_alert_cult,
     in_engage_entity, in_engage_cultist}

ThreatCommand ==
    \E in \in ThreatInputs : calls < MaxThreatCalls /\ Process(in, 0)

NextThreat ==
    ThreatCommand

SpecThreat ==
    Init /\ [][NextThreat]_vars

----------------------------------------------------------------------------------------------------------------------------------------
(* A long session: LogFill scripted commands fill the audit log, then a    *)
(* few more commands are chosen freely                                     *)

FillScript ==
    <<in_status, in_help, in_escalate>>

TailInputs ==
    {in_status, in_config, in_unknowncmd}

FillCommand ==
    /\ calls < LogFill
    /\ Process(FillScript[(calls % Len(FillScript)) + 1], 0)

TailCommand ==
    \E in \in TailInputs :
        /\ calls >= LogFill
        /\ calls < LogFill + MaxTailCalls
        /\ Process(in, 0)

\* the scripted commands all run within one reading of the clock; it moves on
\* once the log is full
TailTick ==
    calls >= LogFill /\ Tick

NextLog ==
    \/ FillCommand
    \/ TailTick
    \/ TailCommand

SpecLog ==
    Init /\ [][NextLog]_vars

----------------------------------------------------------------------------
(* Status reports: a few scripted commands open investigations, raise the  *)
(* threat level and fill the audit log, then the host asks for reports      *)

StatusScript ==
    <<in_investigate_lab, in_escalate, in_config, in_investigate_lab>>

StatusInputs ==
    {in_status, in_investigate_lab, in_escalate}

StatusFillCommand ==
    \E rnd \in Rnd :
        /\ calls < StatusFill
        /\ Process(StatusScript[(calls % Len(StatusScript)) + 1], rnd)

StatusCommand ==
    \E in \in StatusInputs, rnd \in Rnd :
        /\ calls >= StatusFill
        /\ calls < StatusFill + MaxStatusCalls
        /\ Process(in, rnd)

NextStatus ==
    \/ StatusFillCommand
    \/ StatusCommand

SpecStatus ==
    Init /\ [][NextStatus]_vars

----------------------------------------------------------------------------
(* The tokenizer on its own: tokenizeInput applied to every short text over *)
(* a letter, a blank and a double quote, and to one longer command line     *)

\* ENGAGE A1 "giant squid" loud
in_engage_squid ==
    <<"E", "N", "G", "A", "G", "E", " ", "A", "1", " ", "\"", "g", "i", "a", "n", "t", " ", "s", "q", "u", "i", "d", "\"", " ", "l", "o", "u", "d">>

Texts ==
    (UNION {[1..n -> {"a", " ", Quote}] : n \in 0..MaxTextLen})
        \cup {in_engage_squid}

Tokenize(s) ==
    /\ line' = s
    /\ lineTokens' = tokenizeInput(s)
    /\ UNCHANGED <<dispatcherVars, contextVars, agentVars>>

NextTokenize ==
    \E s \in Texts : Tokenize(s)

SpecTokenize ==
    Init /\ [][NextTokenize]_vars

----------------------------------------------------------------------------
(* The context manager (DeltaGreenContextManager).  An object handed in by *)
(* the host is a record that has a field exactly when the host's object     *)
(* has the property; numbers are integers.  Of an agent's descriptive       *)
(* properties name, role and notes are kept (callsign, skills, cover,       *)
(* equipment and connections are filled in and overwritten the same way).   *)

\* obj.key || fallback, for a number and for a string
NumOr(obj, key, fallback) ==
    IF key \in DOMAIN obj /\ obj[key] # 0 THEN obj[key] ELSE fallback

StrOr(obj, key, fallback) ==
    IF key \in DOMAIN obj /\ obj[key] # "" THEN obj[key] ELSE fallback

\* Math.max and Math.min
MathMax(a, b) ==
    IF a >= b THEN a ELSE b

MathMin(a, b) ==
    IF a <= b THEN a ELSE b

\* how a call on the manager ends: the manager it leaves behind and whether
\* it raised
Done(mgr) ==
    [mgr |-> mgr, threw |-> FALSE]

Raised(mgr) ==
    [mgr |-> mgr, threw |-> TRUE]

\* the call returns value
DoneWith(mgr, value) ==
    [mgr |-> mgr, threw |-> FALSE, value |-> value]

\* this.narrative as the constructor and resetCampaign set it
emptyNarrative ==
    [scenes |-> <<>>, atmosphere |-> <<>>, clues |-> <<>>, revelations |-> <<>>]

\* the manager held in the variables; ready says that this.sanityTracker has
\* been assigned
Manager ==
    [agents |-> agents, sanityTracker |-> sanityTracker, ready |-> built,
     teams |-> teams, threats |-> threats, narrative |-> narrative,
     worldState |-> worldState, contextHistory |-> contextHistory]

registerAgent(mgr, agent, t) ==
    LET agentData ==
            [id |-> StrOr(agent, "id",
                        "AGENT-" \o ToString(Cardinality(DOMAIN mgr.agents) + 1)),
             name |-> StrOr(agent, "name", "Unknown Agent"),
             role |-> StrOr(agent, "role", "Operative"),
             sanity |-> NumOr(agent, "sanity", 60),
             maxSanity |-> NumOr(agent, "maxSanity", 60),
             status |-> StrOr(agent, "status", "active"),
             notes |-> StrOr(agent, "notes", ""),
             joinedCampaign |-> t,
             lastAction |-> <<>>,
             stressLevel |-> 0]
        stored == [mgr EXCEPT !.agents = MapSet(mgr.agents, agentData.id, agentData)]
    IN  IF ~mgr.ready
        THEN \* this.sanityTracker is still undefined: .set raises a TypeError
             Raised(stored)
        ELSE DoneWith([stored EXCEPT !.sanityTracker =
                          MapSet(mgr.sanityTracker, agentData.id,
                                 [current |-> agentData.sanity,
                                  max |-> agentData.maxSanity,
                                  history |-> <<>>,
                                  breakpoints |-> <<>>])],
                      agentData)

\* config.agents.forEach(agent => this.registerAgent(agent))
RECURSIVE registerRoster(_, _, _)
registerRoster(mgr, roster, t) ==
    IF roster = <<>> THEN Done(mgr)
    ELSE LET r == registerAgent(mgr, Head(roster), t)
         IN  IF r.threw THEN r ELSE registerRoster(r.mgr, Tail(roster), t)

\* new DeltaGreenContextManager(config); config.agents is the roster
constructorCtx(config, t) ==
    LET fresh == [agents |-> <<>>, sanityTracker |-> <<>>, ready |-> FALSE,
                  teams |-> <<>>, threats |-> <<>>, narrative |-> emptyNarrative,
                  worldState |-> IF "worldState" \in DOMAIN config
                                 THEN config.worldState ELSE <<>>,
                  contextHistory |-> <<>>]
        r == registerRoster(fresh, config.agents, t)
    IN  IF r.threw THEN r
        ELSE Done([r.mgr EXCEPT !.sanityTracker = <<>>, !.ready = TRUE])

\* modifySanity with two of its steps switchable:
\*   incapacitates   - reaching 0 sets the agent's status to incapacitated
\*   recordsNoChange - a call that leaves current as it was is recorded too
modifySanityVariant(mgr, agentId, delta, t, incapacitates, recordsNoChange) ==
    IF agentId \notin DOMAIN mgr.sanityTracker \/ agentId \notin DOMAIN mgr.agents
    THEN Raised(mgr)
    ELSE LET tracker == mgr.sanityTracker[agentId]
             previousSanity == tracker.current
             current == MathMax(0, MathMin(tracker.max, tracker.current + delta))
             history == IF recordsNoChange \/ current # previousSanity
                        THEN Append(tracker.history,
                                    [timestamp |-> t, delta |-> delta,
                                     previous |-> previousSanity,
                                     current |-> current, reason |-> ""])
                        ELSE tracker.history
             breakpoints ==
                 IF current = 0
                 THEN Append(tracker.breakpoints,
                             [timestamp |-> t, type |-> "complete_break"])
                 ELSE IF 4 * current < tracker.max
                 THEN Append(tracker.breakpoints,
                             [timestamp |-> t, type |-> "critical"])
                 ELSE tracker.breakpoints
         IN  Done([mgr EXCEPT
                     !.sanityTracker[agentId] =
                         [current |-> current, max |-> tracker.max,
                          history |-> history, breakpoints |-> breakpoints],
                     !.agents[agentId] =
                         [@ EXCEPT !.sanity = current,
                                   !.status = IF current = 0 /\ incapacitates
                                              THEN "incapacitated" ELSE @]])

\* variant: a complete break leaves the agent's status alone
modifySanity_keepsStatus(mgr, agentId, delta, t) ==
    modifySanityVariant(mgr, agentId, delta, t, FALSE, TRUE)

\* variant: a call that changes nothing leaves no history entry
modifySanity_skipsNoChange(mgr, agentId, delta, t) ==
    modifySanityVariant(mgr, agentId, delta, t, TRUE, FALSE)

modifySanity(mgr, agentId, delta, t) ==
    IF agentId \notin DOMAIN mgr.sanityTracker \/ agentId \notin DOMAIN mgr.agents
    THEN Raised(mgr)
    ELSE LET tracker == mgr.sanityTracker[agentId]
             previousSanity == tracker.current
             current == MathMax(0, MathMin(tracker.max, tracker.current + delta))
             history == Append(tracker.history,
                               [timestamp |-> t, delta |-> delta,
                                previous |-> previousSanity,
                                current |-> current, reason |-> ""])
             breakpoints ==
                 IF current = 0
                 THEN Append(tracker.breakpoints,
                             [timestamp |-> t, type |-> "complete_break"])
                 ELSE IF 4 * current < tracker.max
                 THEN Append(tracker.breakpoints,
                             [timestamp |-> t, type |-> "critical"])
                 ELSE tracker.breakpoints
         IN  Done([mgr EXCEPT
                     !.sanityTracker[agentId] =
                         [current |-> current, max |-> tracker.max,
                          history |-> history, breakpoints |-> breakpoints],
                     !.agents[agentId] =
                         [@ EXCEPT !.sanity = current,
                                   !.status = IF current = 0
                                              THEN "incapacitated" ELSE @]])

\* the body of Object.keys(statusUpdate).forEach, for the keys from i on;
\* statusUpdate is the sequence of the object's <<key, value>> pairs
RECURSIVE applyStatusKeys(_, _, _, _, _)
applyStatusKeys(mgr, agentId, statusUpdate, i, t) ==
    IF i > Len(statusUpdate) THEN Done(mgr)
    ELSE LET key == statusUpdate[i][1]
             value == statusUpdate[i][2]
             r == IF key = "sanity"
                  THEN modifySanity(mgr, agentId, value, t)
                  ELSE IF key = "status"
                  THEN Done([mgr EXCEPT !.agents[agentId].status = value])
                  ELSE IF key = "stressLevel"
                  THEN Done([mgr EXCEPT !.agents[agentId].stressLevel =
                                 MathMax(0, MathMin(100, value))])
                  ELSE IF key \in DOMAIN mgr.agents[agentId]
                  THEN Done([mgr EXCEPT !.agents[agentId][key] = value])
                  ELSE Done(mgr)
         IN  IF r.threw THEN r
             ELSE applyStatusKeys(r.mgr, agentId, statusUpdate, i + 1, t)

\* variant: an update for an agent that is not registered is ignored
updateAgentStatus_silent(mgr, agentId, statusUpdate, t) ==
    IF agentId \notin DOMAIN mgr.agents
    THEN Done(mgr)
    ELSE LET r == applyStatusKeys(mgr, agentId, statusUpdate, 1, t)
         IN  IF r.threw THEN r
             ELSE Done([r.mgr EXCEPT !.agents[agentId].lastAction = <<t>>])

updateAgentStatus(mgr, agentId, statusUpdate, t) ==
    IF agentId \notin DOMAIN mgr.agents
    THEN Raised(mgr)
    ELSE LET r == applyStatusKeys(mgr, agentId, statusUpdate, 1, t)
         IN  IF r.threw THEN r
             ELSE Done([r.mgr EXCEPT !.agents[agentId].lastAction = <<t>>])

\* a team's members are the agent objects found for team.memberIds; they
\* are held here by their ids
createTeam(mgr, team, t) ==
    LET found(id) == id \in DOMAIN mgr.agents
        teamData ==
            [id |-> StrOr(team, "id",
                        "TEAM-" \o ToString(Cardinality(DOMAIN mgr.teams) + 1)),
             name |-> StrOr(team, "name", "Unnamed Team"),
             members |-> IF "memberIds" \in DOMAIN team
                         THEN SelectSeq(team.memberIds, found) ELSE <<>>,
             objective |-> StrOr(team, "objective", ""),
             morale |-> NumOr(team, "morale", 75),
             cohesion |-> NumOr(team, "cohesion", 80),
             casualtyCount |-> 0,
             missionHistory |-> <<>>,
             formed |-> t,
             status |-> "active",
             tactics |-> StrOr(team, "tactics", "adaptive")]
    IN  DoneWith([mgr EXCEPT !.teams = MapSet(mgr.teams, teamData.id, teamData)],
                 teamData)

\* manageTeamDynamics with three of its steps switchable:
\*   penaltyLast - the casualty penalty is taken after the explicit morale
\*   cumulative  - the penalty is computed from the team's casualtyCount
\*   threshold   - the morale above which the team is operational
manageTeamDynamicsVariant(mgr, teamId, dynamics, penaltyLast, cumulative,
                          threshold) ==
    IF teamId \notin DOMAIN mgr.teams
    THEN Raised(mgr)
    ELSE LET team == mgr.teams[teamId]
             casualty == IF "casualty" \in DOMAIN dynamics
                         THEN dynamics.casualty ELSE 0
             casualtyCount == team.casualtyCount + casualty
             moralePenalty ==
                 IF casualtyCount > 0
                 THEN MathMin(30, (IF cumulative THEN casualtyCount
                                   ELSE casualty) * 5)
                 ELSE 0
             start == IF penaltyLast THEN team.morale
                      ELSE MathMax(0, team.morale - moralePenalty)
             explicit == IF "morale" \in DOMAIN dynamics
                         THEN MathMax(0, MathMin(100, dynamics.morale))
                         ELSE start
             morale == IF penaltyLast /\ casualtyCount > 0
                       THEN MathMax(0, explicit - moralePenalty)
                       ELSE explicit
             cohesion == IF "cohesion" \in DOMAIN dynamics
                         THEN MathMax(0, MathMin(100, dynamics.cohesion))
                         ELSE team.cohesion
             tactics == StrOr(dynamics, "tactics", team.tactics)
         IN  DoneWith([mgr EXCEPT !.teams[teamId] =
                           [@ EXCEPT !.morale = morale,
                                     !.cohesion = cohesion,
                                     !.casualtyCount = casualtyCount,
                                     !.tactics = tactics]],
                      [teamId |-> team.id, morale |-> morale,
                       cohesion |-> cohesion, casualties |-> casualtyCount,
                       status |-> IF morale > threshold THEN "operational"
                                  ELSE "compromised"])

\* variant: the casualty penalty is taken before the explicit morale is set
manageTeamDynamics_penaltyFirst(mgr, teamId, dynamics) ==
    manageTeamDynamicsVariant(mgr, teamId, dynamics, FALSE, TRUE, 50)

\* variant: the penalty counts the casualties of this call only
manageTeamDynamics_penaltyPerEvent(mgr, teamId, dynamics) ==
    manageTeamDynamicsVariant(mgr, teamId, dynamics, TRUE, FALSE, 50)

\* variant: a team of morale 50 is operational
manageTeamDynamics_operationalAtFifty(mgr, teamId, dynamics) ==
    manageTeamDynamicsVariant(mgr, teamId, dynamics, TRUE, TRUE, 49)

manageTeamDynamics(mgr, teamId, dynamics) ==
    IF teamId \notin DOMAIN mgr.teams
    THEN Raised(mgr)
    ELSE LET team == mgr.teams[teamId]
             explicit == IF "morale" \in DOMAIN dynamics
                         THEN MathMax(0, MathMin(100, dynamics.morale))
                         ELSE team.morale
             cohesion == IF "cohesion" \in DOMAIN dynamics
                         THEN MathMax(0, MathMin(100, dynamics.cohesion))
                         ELSE team.cohesion
             casualtyCount == IF "casualty" \in DOMAIN dynamics
                                 /\ dynamics.casualty # 0
                              THEN team.casualtyCount + dynamics.casualty
                              ELSE team.casualtyCount
             tactics == StrOr(dynamics, "tactics", team.tactics)
             morale == IF casualtyCount > 0
                       THEN MathMax(0, explicit - MathMin(30, casualtyCount * 5))
                       ELSE explicit
         IN  DoneWith([mgr EXCEPT !.teams[teamId] =
                           [@ EXCEPT !.morale = morale,
                                     !.cohesion = cohesion,
                                     !.casualtyCount = casualtyCount,
                                     !.tactics = tactics]],
                      [teamId |-> team.id, morale |-> morale,
                       cohesion |-> cohesion, casualties |-> casualtyCount,
                       status |-> IF morale > 50 THEN "operational"
                                  ELSE "compromised"])

\* variant: the supplied threat_level is stored as it comes
createThreatAssessment_unclamped(mgr, threat, t) ==
    LET threatData ==
            [id |-> "THREAT-" \o ToString(Cardinality(DOMAIN mgr.threats) + 1),
             name |-> StrOr(threat, "name", "Unknown Threat"),
             type |-> StrOr(threat, "type", "anomalous"),
             threatLevel |-> NumOr(threat, "threat_level", 5),
             classification |-> StrOr(threat, "classification", "DELTA GREEN"),
             discovered |-> t,
             lastSeen |-> t,
             status |-> "active",
             containment_status |-> StrOr(threat, "containment_status",
                                          "uncontained"),
             response_team |-> Null]
    IN  DoneWith([mgr EXCEPT
                    !.threats = MapSet(mgr.threats, threatData.id, threatData)],
                 threatData)

\* of a threat's properties the lists (attributes, knownLocations,
\* capabilities, weaknesses, agents_aware) are left out: they are copied from
\* the argument or start empty
createThreatAssessment(mgr, threat, t) ==
    LET threatData ==
            [id |-> "THREAT-" \o ToString(Cardinality(DOMAIN mgr.threats) + 1),
             name |-> StrOr(threat, "name", "Unknown Threat"),
             type |-> StrOr(threat, "type", "anomalous"),
             threatLevel |->
                 MathMax(1, MathMin(10, NumOr(threat, "threat_level", 5))),
             classification |-> StrOr(threat, "classification", "DELTA GREEN"),
             discovered |-> t,
             lastSeen |-> t,
             status |-> "active",
             containment_status |-> StrOr(threat, "containment_status",
                                          "uncontained"),
             response_team |-> Null]
    IN  DoneWith([mgr EXCEPT
                    !.threats = MapSet(mgr.threats, threatData.id, threatData)],
                 threatData)

\* of an element's properties the lists (triggers, affected_agents,
\* consequences) are left out
injectNarrative(mgr, injected, t) ==
    LET narrativeElement ==
            [id |-> "NARRATIVE-" \o ToString(t),
             type |-> StrOr(injected, "type", "scene"),
             content |-> StrOr(injected, "content", ""),
             intensity |->
                 MathMax(1, MathMin(10, NumOr(injected, "intensity", 5))),
             timestamp |-> t,
             delivered |-> FALSE,
             mood |-> StrOr(injected, "mood", "tense")]
        type == narrativeElement.type
    IN  DoneWith(
            IF type = "scene"
            THEN [mgr EXCEPT !.narrative.scenes = Append(@, narrativeElement)]
            ELSE IF type = "atmosphere"
            THEN [mgr EXCEPT !.narrative.atmosphere = Append(@, narrativeElement)]
            ELSE IF type = "clue"
            THEN [mgr EXCEPT !.narrative.clues = Append(@, narrativeElement)]
            ELSE IF type = "revelation"
            THEN [mgr EXCEPT !.narrative.revelations = Append(@, narrativeElement)]
            ELSE mgr,
            narrativeElement)

\* the values of this.threats in the order of the Map, which is the order
\* of insertion: the keys are THREAT-1 .. THREAT-n
threatValues(mgr) ==
    [i \in 1..Cardinality(DOMAIN mgr.threats) |->
        mgr.threats["THREAT-" \o ToString(i)]]

\* s with x put behind the last element whose threatLevel is not below x's:
\* one step of the stable sort by (a, b) => b.threatLevel - a.threatLevel
RECURSIVE insertByLevel(_, _)
insertByLevel(s, x) ==
    IF s = <<>> THEN <<x>>
    ELSE IF Head(s).threatLevel >= x.threatLevel
    THEN <<Head(s)>> \o insertByLevel(Tail(s), x)
    ELSE <<x>> \o s

RECURSIVE sortByLevel(_)
sortByLevel(s) ==
    IF s = <<>> THEN <<>>
    ELSE insertByLevel(sortByLevel(SubSeq(s, 1, Len(s) - 1)), s[Len(s)])

\* variant: a threat at the minimum level itself is left out
getActiveThreats_aboveMinimum(mgr, filter) ==
    LET minThreatLevel == NumOr(filter, "minThreatLevel", 0)
        kept(threat) ==
            /\ threat.status = "active"
            /\ ~(minThreatLevel # 0 /\ threat.threatLevel <= minThreatLevel)
    IN  DoneWith(mgr, sortByLevel(SelectSeq(threatValues(mgr), kept)))

getActiveThreats(mgr, filter) ==
    LET minThreatLevel == NumOr(filter, "minThreatLevel", 0)
        kept(threat) ==
            /\ threat.status = "active"
            /\ ~(minThreatLevel # 0 /\ threat.threatLevel < minThreatLevel)
    IN  DoneWith(mgr, sortByLevel(SelectSeq(threatValues(mgr), kept)))

\* variant: recentScene is the oldest scene
getNarrativeState_firstScene(mgr) ==
    LET n == mgr.narrative
        undelivered(e) == ~e.delivered
    IN  DoneWith(mgr,
            [scenes |-> Len(n.scenes),
             atmosphere |-> Len(n.atmosphere),
             clues |-> Len(n.clues),
             revelations |-> Len(n.revelations),
             recentScene |-> IF n.scenes = <<>> THEN Null ELSE n.scenes[1],
             pendingNarrative |->
                 SelectSeq(n.scenes \o n.atmosphere \o n.clues \o n.revelations,
                           undelivered)])

getNarrativeState(mgr) ==
    LET n == mgr.narrative
        undelivered(e) == ~e.delivered
    IN  DoneWith(mgr,
            [scenes |-> Len(n.scenes),
             atmosphere |-> Len(n.atmosphere),
             clues |-> Len(n.clues),
             revelations |-> Len(n.revelations),
             recentScene |-> IF n.scenes = <<>> THEN Null
                             ELSE n.scenes[Len(n.scenes)],
             pendingNarrative |->
                 SelectSeq(n.scenes \o n.atmosphere \o n.clues \o n.revelations,
                           undelivered)])

\* An array of objects taken out of a Map (getAllAgents, getAllTeams) is
\* held as key -> [live, value]: value is what is read through the element,
\* live says that the element is still the object the Map holds under key,
\* so that what a method writes to the stored object shows in the element.
references(store) ==
    [key \in DOMAIN store |-> [live |-> TRUE, value |-> store[key]]]

\* the elements of held after a call: replaced are the keys under which the
\* call stored a new object, store is the Map after the call
shared(held, store, replaced) ==
    [key \in DOMAIN held |->
        IF held[key].live /\ key \in DOMAIN store /\ key \notin replaced
        THEN [live |-> TRUE, value |-> store[key]]
        ELSE [live |-> FALSE, value |-> held[key].value]]

\* no mission is created in this model: getCurrentMission returns null
buildContext(mgr, contextData, t) ==
    LET context ==
            [id |-> "CTX-" \o ToString(t),
             timestamp |-> t,
             agents |-> references(mgr.agents),
             teams |-> references(mgr.teams),
             currentMission |-> Null,
             activeThreats |-> getActiveThreats(mgr, [minThreatLevel |-> 0]).value,
             narrative |-> getNarrativeState(mgr).value,
             worldState |-> mgr.worldState,
             atmosphere |-> StrOr(contextData, "atmosphere", "tense"),
             briefingLevel |-> StrOr(contextData, "briefingLevel", "classified"),
             clearance |-> StrOr(contextData, "clearance", "DELTA GREEN")]
    IN  DoneWith([mgr EXCEPT !.contextHistory = Append(@, context)], context)

\* config.key !== true
NotTrue(config, key) ==
    ~(key \in DOMAIN config /\ config[key] = TRUE)

\* variant: the reset forgets the agents but keeps their trackers
resetCampaign_keepsTrackers(mgr, config) ==
    Done([mgr EXCEPT
            !.agents = IF NotTrue(config, "preserveAgents") THEN <<>> ELSE @,
            !.teams = IF NotTrue(config, "preserveTeams") THEN <<>> ELSE @,
            !.threats = <<>>,
            !.narrative = emptyNarrative,
            !.worldState = IF "resetWorldState" \in DOMAIN config
                              /\ config.resetWorldState = TRUE
                           THEN <<>> ELSE @])

\* the reset, on the agents, trackers, teams, threats, the narrative and the
\* world state (missions and the mission log are not part of the model)
resetCampaign(mgr, config) ==
    Done([mgr EXCEPT
            !.agents = IF NotTrue(config, "preserveAgents") THEN <<>> ELSE @,
            !.sanityTracker =
                IF NotTrue(config, "preserveAgents") THEN <<>> ELSE @,
            !.teams = IF NotTrue(config, "preserveTeams") THEN <<>> ELSE @,
            !.threats = <<>>,
            !.narrative = emptyNarrative,
            !.worldState = IF "resetWorldState" \in DOMAIN config
                              /\ config.resetWorldState = TRUE
                           THEN <<>> ELSE @])

----------------------------------------------------------------------------
(* The calls the host makes on the context manager *)

ag_a ==
    [id |-> "A", sanity |-> 70, maxSanity |-> 70]

ag_anonymous ==
    [name |-> "Doe"]

ag_over ==
    [id |-> "A", sanity |-> 100, maxSanity |-> 60]

ag_negative ==
    [id |-> "A", maxSanity |-> -5]

\* an explicit id of the form the manager generates
ag_numbered ==
    [id |-> "AGENT-2", sanity |-> 40]

AgentInputs ==
    <<ag_a, ag_anonymous, ag_over, ag_negative, ag_numbered>>

Deltas ==
    {-75, -60, 0, 75}

SanityCalls ==
    {<<"A", delta>> : delta \in Deltas} \cup {<<"Z", -5>>}

\* { sanity: -75, status: 'active' }
up_break ==
    << <<"sanity", -75>>, <<"status", "active">> >>

\* { stressLevel: 150, mood: 'grim' }
up_stress ==
    << <<"stressLevel", 150>>, <<"mood", "grim">> >>

\* { maxSanity: 10 }
up_max ==
    << <<"maxSanity", 10>> >>

StatusUpdates ==
    <<up_break, up_stress, up_max>>

UpdateCalls ==
    {<<"A", i>> : i \in 1..Len(StatusUpdates)} \cup {<<"Z", 1>>}

ResetConfigs ==
    {[preserveAgents |-> TRUE], [preserveAgents |-> FALSE]}

\* config.agents of the constructor call
Rosters ==
    {<<>>, <<ag_a>>}

\* a call on the manager ends: its effect is stored and the call is noted
Finish(r, name, id, arg) ==
    /\ agents' = r.mgr.agents
    /\ sanityTracker' = r.mgr.sanityTracker
    /\ built' = r.mgr.ready
    /\ teams' = r.mgr.teams
    /\ threats' = r.mgr.threats
    /\ narrative' = r.mgr.narrative
    /\ returned' = IF "value" \in DOMAIN r THEN r.value ELSE <<>>
    /\ worldState' = r.mgr.worldState
    /\ contextHistory' =
           LET stored == IF "value" \in DOMAIN r THEN {r.value.id} ELSE {}
           IN  [i \in 1..Len(r.mgr.contextHistory) |->
                   [r.mgr.contextHistory[i] EXCEPT
                      !.agents = shared(@, r.mgr.agents,
                                        IF name = "registerAgent"
                                        THEN stored ELSE {}),
                      !.teams = shared(@, r.mgr.teams,
                                       IF name = "createTeam"
                                       THEN stored ELSE {})]]
    /\ lastOp' = [name |-> name, id |-> id, arg |-> arg, threw |-> r.threw]
    /\ opCount' = opCount + 1
    /\ UNCHANGED <<dispatcherVars, tokenizerVars, agentVars>>

\* the host builds the manager it is going to use
Construct(roster) ==
    /\ opCount = 0
    /\ Finish(constructorCtx([agents |-> roster], now), "constructor", "", roster)

RegisterAgent(agent) ==
    /\ built
    /\ opCount < MaxCtxOps
    /\ Finish(registerAgent(Manager, agent, now), "registerAgent",
              StrOr(agent, "id", ""), agent)

ModifySanity(agentId, delta) ==
    /\ built
    /\ opCount < MaxCtxOps
    /\ Finish(modifySanity(Manager, agentId, delta, now), "modifySanity",
              agentId, delta)

UpdateAgentStatus(agentId, statusUpdate) ==
    /\ built
    /\ opCount < MaxCtxOps
    /\ Finish(updateAgentStatus(Manager, agentId, statusUpdate, now),
              "updateAgentStatus", agentId, statusUpdate)

ResetCampaign(config) ==
    /\ built
    /\ opCount < MaxCtxOps
    /\ Finish(resetCampaign(Manager, config), "resetCampaign", "", config)

NextCtx ==
    \/ \E roster \in Rosters : Construct(roster)
    \/ \E i \in 1..Len(AgentInputs) : RegisterAgent(AgentInputs[i])
    \/ \E c \in SanityCalls : ModifySanity(c[1], c[2])
    \/ \E c \in UpdateCalls : UpdateAgentStatus(c[1], StatusUpdates[c[2]])
    \/ \E config \in ResetConfigs : ResetCampaign(config)

SpecCtx ==
    Init /\ [][NextCtx]_vars

----------------------------------------------------------------------------
(* The calls the host makes on the teams *)

tm_t ==
    [id |-> "T"]

\* { id: 'T', morale: 150, cohesion: -20 }
tm_loud ==
    [id |-> "T", morale |-> 150, cohesion |-> -20]

tm_anonymous ==
    [name |-> "Night", memberIds |-> <<"A", "Z">>]

TeamInputs ==
    <<tm_t, tm_loud, tm_anonymous>>

d_casualty ==
    [casualty |-> 1]

d_morale_casualty ==
    [morale |-> 55, casualty |-> 1]

d_revived ==
    [casualty |-> -1]

d_clamped ==
    [morale |-> 150, cohesion |-> -20, tactics |-> "stealth"]

d_nothing ==
    [casualty |-> 0]

Dynamics ==
    <<d_casualty, d_morale_casualty, d_revived, d_clamped, d_nothing>>

DynamicsCalls ==
    {<<"T", i>> : i \in 1..Len(Dynamics)} \cup {<<"Z", 1>>}

TeamSanityCalls ==
    {<<"A", -60>>, <<"Z", -5>>}

TeamUpdateCalls ==
    {<<"A", 2>>, <<"Z", 1>>}

TeamResetConfigs ==
    {[preserveTeams |-> TRUE], [preserveAgents |-> TRUE]}

CreateTeam(team) ==
    /\ built
    /\ opCount < MaxCtxOps
    /\ Finish(createTeam(Manager, team, now), "createTeam",
              StrOr(team, "id", ""), team)

ManageTeamDynamics(teamId, dynamics) ==
    /\ built
    /\ opCount < MaxCtxOps
    /\ Finish(manageTeamDynamics(Manager, teamId, dynamics),
              "manageTeamDynamics", teamId, dynamics)

NextTeam ==
    \/ RegisterAgent(ag_a)
    \/ \E i \in 1..Len(TeamInputs) : CreateTeam(TeamInputs[i])
    \/ \E c \in DynamicsCalls : ManageTeamDynamics(c[1], Dynamics[c[2]])
    \/ \E c \in TeamSanityCalls : ModifySanity(c[1], c[2])
    \/ \E c \in TeamUpdateCalls : UpdateAgentStatus(c[1], StatusUpdates[c[2]])
    \/ \E config \in TeamResetConfigs : ResetCampaign(config)

SpecTeam ==
    Init /\ [][NextTeam]_vars

----------------------------------------------------------------------------
(* The calls the host makes on the threats and the narrative *)

th_negative ==
    [name |-> "Mist", threat_level |-> -3]

th_zero ==
    [name |-> "Mist", threat_level |-> 0]

th_huge ==
    [name |-> "King", threat_level |-> 15]

th_seven ==
    [name |-> "Cult", threat_level |-> 7]

th_unrated ==
    [name |-> "Cult"]

ThreatAssessments ==
    <<th_negative, th_zero, th_huge, th_seven, th_unrated>>

NarrativeTypes ==
    {"scene", "atmosphere", "clue", "revelation", "rumor"}

\* the elements handed to injectNarrative: one of each type, and one
\* without a type
NarrativeInputs ==
    {[type |-> type, intensity |-> 12] : type \in NarrativeTypes}
        \cup {[content |-> "fog"]}

CreateThreatAssessment(threat) ==
    /\ built
    /\ opCount < MaxCtxOps
    /\ Finish(createThreatAssessment(Manager, threat, now),
              "createThreatAssessment", "", threat)

InjectNarrative(injected) ==
    /\ built
    /\ opCount < MaxCtxOps
    /\ Finish(injectNarrative(Manager, injected, now), "injectNarrative", "",
              injected)

\* the filters handed to getActiveThreats
ThreatFilters ==
    {[minThreatLevel |-> 5], [minThreatLevel |-> 10], [minThreatLevel |-> 0]}

GetActiveThreats(filter) ==
    /\ built
    /\ opCount < MaxCtxOps
    /\ Finish(getActiveThreats(Manager, filter), "getActiveThreats", "",
              filter)

GetNarrativeState ==
    /\ built
    /\ opCount < MaxCtxOps
    /\ Finish(getNarrativeState(Manager), "getNarrativeState", "", <<>>)

NextWorld ==
    \/ \E i \in 1..Len(ThreatAssessments) :
          CreateThreatAssessment(ThreatAssessments[i])
    \/ \E injected \in NarrativeInputs : InjectNarrative(injected)
    \/ \E filter \in ThreatFilters : GetActiveThreats(filter)
    \/ GetNarrativeState
    \/ ResetCampaign([resetWorldState |-> TRUE])

SpecWorld ==
    Init /\ [][NextWorld]_vars

----------------------------------------------------------------------------
(* Snapshots: buildContext between the calls that change agents, teams,   *)
(* threats, the narrative and the world state                              *)

BuildContext(contextData) ==
    /\ built
    /\ opCount < MaxCtxOps
    /\ Finish(buildContext(Manager, contextData, now), "buildContext", "",
              contextData)

\* the host assigns manager.worldState[key] = value
SetWorldState(key, value) ==
    /\ built
    /\ opCount < MaxCtxOps
    /\ Finish(Done([Manager EXCEPT !.worldState = MapSet(@, key, value)]),
              "worldState", key, value)

NextSnapshot ==
    \/ RegisterAgent(ag_a)
    \/ CreateTeam(tm_t)
    \/ CreateThreatAssessment(th_seven)
    \/ BuildContext([atmosphere |-> "dread"])
    \/ ModifySanity("A", -60)
    \/ UpdateAgentStatus("A", up_stress)
    \/ ManageTeamDynamics("T", d_casualty)
    \/ InjectNarrative([type |-> "scene", intensity |-> 12])
    \/ \E value \in {"rain", "snow"} : SetWorldState("weather", value)
    \/ ResetCampaign([resetWorldState |-> TRUE])

SpecSnapshot ==
    Init /\ [][NextSnapshot]_vars

----------------------------------------------------------------------------
(* The DAS library: a DAS_Agent's sanity and bonds.  self is the agent;    *)
(* of this.sanity the lists phobias, manias and disorders are left out.    *)

\* roll is the value rollD10() produces
triggerBreakdown(self, roll) ==
    [self EXCEPT !.sanity.breakdown = TRUE,
                 !.sanity.breakdownDuration = roll]

takeSanityDamage(self, amount, type, roll) ==
    LET pooled ==
            IF type = "temporary"
            THEN [self EXCEPT !.sanity.temporaryLoss = @ + amount]
            ELSE IF type = "permanent"
            THEN [self EXCEPT !.sanity.permanentLoss = @ + amount]
            ELSE self
        damaged == [pooled EXCEPT
                      !.sanity.current = MathMax(0, self.sanity.current - amount)]
    IN  IF damaged.sanity.current = 0
        THEN triggerBreakdown(damaged, roll)
        ELSE damaged

recoverSanity(self, amount, type) ==
    LET restored ==
            IF type = "temporary" /\ self.sanity.temporaryLoss > 0
            THEN LET recovered == MathMin(amount, self.sanity.temporaryLoss)
                 IN  [self EXCEPT !.sanity.temporaryLoss = @ - recovered,
                                  !.sanity.current = @ + recovered]
            ELSE self
    IN  [restored EXCEPT
           !.sanity.current = MathMin(self.sanity.maximum, restored.sanity.current)]

addOrUpdateBond(self, agentName, relationship, strength, t) ==
    IF \E i \in 1..Len(self.bonds) : self.bonds[i].agentName = agentName
    THEN LET i == CHOOSE k \in 1..Len(self.bonds) :
                     /\ self.bonds[k].agentName = agentName
                     /\ \A j \in 1..(k - 1) : self.bonds[j].agentName # agentName
         IN  [self EXCEPT !.bonds[i].relationship = relationship,
                          !.bonds[i].strength = MathMin(10, strength),
                          !.bonds[i].lastUpdated = t]
    ELSE [self EXCEPT !.bonds =
             Append(@, [agentName |-> agentName,
                        relationship |-> relationship,
                        strength |-> MathMin(10, strength),
                        secrets |-> <<>>,
                        trustLevel |-> IF strength > 7 THEN "high"
                                       ELSE IF strength > 3 THEN "moderate"
                                       ELSE "low",
                        dateFormed |-> t,
                        lastUpdated |-> t])]

\* the amounts of sanity damage and recovery
Amounts ==
    {0, 30, 150}

\* the values rollD10() is taken to produce
Rolls ==
    {1, 10}

Strengths ==
    {-3, 5, 12}

\* a call on the agent ends
AgentCall(after, name, amount, type) ==
    /\ dasCount < MaxAgentOps
    /\ dasAgent' = after
    /\ dasOp' = [name |-> name, amount |-> amount, type |-> type]
    /\ dasCount' = dasCount + 1
    /\ UNCHANGED <<dispatcherVars, tokenizerVars, contextVars>>

TakeSanityDamage(amount, type, roll) ==
    AgentCall(takeSanityDamage(dasAgent, amount, type, roll),
              "takeSanityDamage", amount, type)

RecoverSanity(amount, type) ==
    AgentCall(recoverSanity(dasAgent, amount, type), "recoverSanity", amount,
              type)

AddOrUpdateBond(agentName, relationship, strength) ==
    AgentCall(addOrUpdateBond(dasAgent, agentName, relationship, strength, now),
              "addOrUpdateBond", strength, relationship)

NextAgent ==
    \/ \E amount \in Amounts, type \in {"temporary", "permanent", "indefinite"},
          roll \in Rolls : TakeSanityDamage(amount, type, roll)
    \/ \E amount \in Amounts, type \in {"temporary", "permanent"} :
          RecoverSanity(amount, type)
    \/ \E agentName \in {"Reyes", "Okafor"}, strength \in Strengths :
          AddOrUpdateBond(agentName, "partner", strength)

SpecAgent ==
    Init /\ [][NextAgent]_vars

----------------------------------------------------------------------------
(* Vocabulary of the properties *)

\* a step that is one processCommand call
CallStep ==
    calls' = calls + 1

Tokens(in) ==
    tokenizeInput(trim(in))

CommandOf(in) ==
    toUpperCase(Tokens(in)[1])

ArgsOf(in) ==
    Tail(Tokens(in))

\* the last n elements of a sequence, oldest first
LastN(s, n) ==
    SubSeq(s, IF Len(s) > n THEN Len(s) - n + 1 ELSE 1, Len(s))

\* the number of arguments each validating command requires (command table)
RequiredArgs ==
    {<<w_INVESTIGATE, 1>>, <<w_ENGAGE, 2>>, <<w_RETREAT, 1>>,
     <<w_CONTAIN, 1>>, <<w_RESEARCH, 1>>, <<w_DEBRIEF, 1>>, <<w_ALERT, 1>>,
     <<w_SANITIZE, 1>>, <<w_CONFIG, 1>>}

MissingRequired(in) ==
    /\ Tokens(in) # <<>>
    /\ \E p \in RequiredArgs :
           p[1] = CommandOf(in) /\ Len(ArgsOf(in)) < p[2]

\* the input names a command bound to one of the built-in handlers
ValidCommand(in) ==
    /\ Tokens(in) # <<>>
    /\ CommandOf(in) \in DOMAIN commandRegistry
    /\ commandRegistry[CommandOf(in)] \in BuiltinHandlers

Rank ==
    [NORMAL |-> 0, ELEVATED |-> 1, CRITICAL |-> 2]

IsCommand(in, name, nargs) ==
    /\ Tokens(in) # <<>>
    /\ CommandOf(in) = name
    /\ Len(ArgsOf(in)) >= nargs

w_UNKNOWNCMD ==
    <<"U", "N", "K", "N", "O", "W", "N", "C", "M", "D">>

w_ORB ==
    <<"o", "r", "b">>

----------------------------------------------------------------------------
(* Properties *)

\* C1: every processCommand call returns an envelope whose status is SUCCESS
\* or ERROR; no call lets an error escape the dispatcher.
C1_EveryCallReturnsEnvelope ==
    outcome # "none" =>
        /\ outcome = "returned"
        /\ result.status \in {"SUCCESS", "ERROR"}

C3_HandlerFaultContained ==
    [][/\ (CallStep /\ raised') =>
              /\ outcome' = "returned"
              /\ result'.status = "ERROR"
              /\ result'.message =
                     Msg("Command execution failed: ", <<"handler fault">>)
              /\ UNCHANGED <<commandRegistry, threatLevel, agentStates,
                             actionLog>>
       /\ (CallStep /\ raised /\ ValidCommand(input')) =>
              /\ outcome' = "returned"
              /\ ~raised'
              /\ result'.status \in {"SUCCESS", "ERROR"}
              /\ Len(logged') = Len(logged) + 1
              /\ commandRegistry' = commandRegistry]_vars

C3_Witness ==
    /\ calls >= 2
    /\ faults >= 1
    /\ ~raised
    /\ outcome = "returned"
    /\ ValidCommand(input)
    /\ result.status = "SUCCESS"
    /\ Len(logged) = calls - 1

\* C4: the audit log never holds more than 100 entries and always is the
\* most recently logged min(100, n) entries, oldest first.
C4_AuditLogKeepsLast100 ==
    /\ Len(actionLog) <= 100
    /\ actionLog = LastN(logged, 100)

C4_Witness ==
    /\ Len(logged) = 105
    /\ \A i \in 1..Len(logged) : logged[i].status = "SUCCESS"
    /\ actionLog = SubSeq(logged, 6, 105)
    /\ actionLog[1] # logged[1]

\* C5: a call appends exactly one audit entry {timestamp, command, args,
\* status}, carrying the returned status, if and only if a registered handler
\* returned normally; otherwise the log is left alone.
C5_AuditEntryIffHandlerReturned ==
    [][CallStep =>
          IF /\ Tokens(input') # <<>>
             /\ CommandOf(input') \in DOMAIN commandRegistry
             /\ outcome' = "returned"
             /\ ~raised'
          THEN LET entry == [timestamp |-> now,
                             command |-> CommandOf(input'),
                             args |-> ArgsOf(input'),
                             status |-> result'.status]
               IN  /\ logged' = Append(logged, entry)
                   /\ actionLog' = LastN(Append(actionLog, entry), 100)
          ELSE /\ logged' = logged
               /\ actionLog' = actionLog]_vars

C5_Witness ==
    /\ raised
    /\ Len(actionLog) = 1
    /\ actionLog[1].status = "ERROR"
    /\ calls = 2

\* C6: a first token that, upper-cased, is not registered is answered with
\* ERROR "Unknown command: <UPPER-CASED NAME>"; the audit log length, the
\* threat level and the store do not change.
C6_UnknownCommand ==
    [][(/\ CallStep
        /\ Tokens(input') # <<>>
        /\ CommandOf(input') \notin DOMAIN commandRegistry) =>
          /\ outcome' = "returned"
          /\ result'.status = "ERROR"
          /\ result'.message = Msg("Unknown command: ", CommandOf(input'))
          /\ Len(actionLog') = Len(actionLog)
          /\ threatLevel' = threatLevel
          /\ agentStates' = agentStates]_vars

C6_Witness ==
    /\ input = in_unknowncmd
    /\ outcome = "returned"
    /\ result.status = "ERROR"
    /\ result.message = Msg("Unknown command: ", w_UNKNOWNCMD)
    /\ Len(actionLog) = 1
    /\ calls = 2

\* C7: an empty or whitespace-only input is answered with ERROR "No command
\* provided" and changes neither the threat level, the store nor the log.
C7_EmptyInput ==
    [][(CallStep /\ \A i \in 1..Len(input') : input'[i] \in WhiteSpace) =>
          /\ outcome' = "returned"
          /\ result'.status = "ERROR"
          /\ result'.message = Msg("No command provided", <<>>)
          /\ UNCHANGED <<threatLevel, agentStates, actionLog>>]_vars

C7_Witness ==
    /\ input = in_blank
    /\ outcome = "returned"
    /\ result.message = Msg("No command provided", <<>>)
    /\ Len(actionLog) = 1
    /\ threatLevel # "NORMAL"
    /\ calls = 2

\* C8: ESCALATE moves the threat level exactly one step up along
\* NORMAL, ELEVATED, CRITICAL and leaves CRITICAL where it is; the second of
\* two consecutive ESCALATEs always ends in CRITICAL.
C8_EscalateSteps ==
    [][(CallStep /\ IsCommand(input', w_ESCALATE, 0)) =>
          /\ Rank[threatLevel'] =
                 IF Rank[threatLevel] = 2 THEN 2 ELSE Rank[threatLevel] + 1
          /\ (calls > 0 /\ IsCommand(input, w_ESCALATE, 0)) =>
                 threatLevel' = "CRITICAL"]_vars

C8_Witness ==
    /\ calls = 3
    /\ Len(logged) = 3
    /\ \A i \in 1..3 : logged[i].command = w_ESCALATE
    /\ threatLevel = "CRITICAL"

C10_AlertForcesElevated ==
    [][(CallStep /\ IsCommand(input', w_ALERT, 1)) =>
          /\ result'.status = "SUCCESS"
          /\ threatLevel' = "ELEVATED"]_vars

C10_Witness ==
    /\ input = in_alert_cult
    /\ result.status = "SUCCESS"
    /\ threatLevel = "ELEVATED"
    /\ Len(logged) >= 2
    /\ logged[Len(logged) - 1].command = w_CONTAIN
    /\ logged[Len(logged) - 1].args = <<w_ORB, w_CRITICAL>>

\* C11: an ENGAGE with agent id and threat sets the threat level to ELEVATED
\* when the threat text contains ANOMALY, ENTITY, HOSTILE or UNKNOWN in any
\* letter case, whatever the level was, and leaves it alone otherwise.
C11_EngageKeywordElevates ==
    [][(CallStep /\ IsCommand(input', w_ENGAGE, 2)) =>
          LET threat == toUpperCase(ArgsOf(input')[2])
              named == \E keyword \in {w_ANOMALY, w_ENTITY, w_HOSTILE, w_UNKNOWN} :
                           \E at \in 0..(Len(threat) - Len(keyword)) :
                               \A j \in 1..Len(keyword) :
                                   threat[at + j] = keyword[j]
          IN  /\ result'.status = "SUCCESS"
              /\ threatLevel' = IF named THEN "ELEVATED" ELSE threatLevel]_vars

C11_Witness ==
    /\ input = in_engage_entity
    /\ result.status = "SUCCESS"
    /\ threatLevel = "ELEVATED"
    /\ Len(logged) >= 2
    /\ logged[Len(logged) - 1].args = <<w_ORB, w_CRITICAL>>

\* C13: STATUS answers SUCCESS with the current threat level, the number of
\* records in agentStates and the last min(5, n) audit entries logged before
\* the call, oldest first; it changes neither the threat level nor the store.
C13_StatusReport ==
    [][(CallStep /\ IsCommand(input', w_STATUS, 0)) =>
          /\ outcome' = "returned"
          /\ result'.status = "SUCCESS"
          /\ result'.data.threatLevel = threatLevel
          /\ result'.data.activeOperations = Cardinality(DOMAIN agentStates)
          /\ result'.data.recentActions = LastN(logged, 5)
          /\ threatLevel' = threatLevel
          /\ agentStates' = agentStates]_vars

C13_Witness ==
    /\ input = in_status
    /\ result.status = "SUCCESS"
    /\ Len(logged) >= 7
    /\ result.data.recentActions =
           SubSeq(logged, Len(logged) - 5, Len(logged) - 1)
    /\ result.data.recentActions[1] # logged[1]
    /\ result.data.activeOperations >= 2
    /\ result.data.threatLevel = "CRITICAL"

\* the tokens the description promises: blanks separate, a run of other
\* characters is a token, and a double quote opens a run that ends at the next
\* double quote and is one token, without its quotes, whatever it contains
RECURSIVE SplitFrom(_, _)
SplitFrom(s, i) ==
    IF i > Len(s) THEN <<>>
    ELSE IF s[i] \in WhiteSpace THEN SplitFrom(s, i + 1)
    ELSE IF s[i] = Quote
    THEN LET k == CHOOSE k \in (i + 1)..Len(s) :
                      s[k] = Quote /\ \A m \in (i + 1)..(k - 1) : s[m] # Quote
         IN  <<SubSeq(s, i + 1, k - 1)>> \o SplitFrom(s, k + 1)
    ELSE LET k == CHOOSE k \in i..Len(s) :
                      /\ \A m \in i..k : s[m] \notin WhiteSpace \cup {Quote}
                      /\ k = Len(s) \/ s[k + 1] \in WhiteSpace \cup {Quote}
         IN  <<SubSeq(s, i, k)>> \o SplitFrom(s, k + 1)

BalancedQuotes(s) ==
    Cardinality({i \in 1..Len(s) : s[i] = Quote}) % 2 = 0

\* C12: for every text with balanced quotes tokenizeInput yields the
\* blank-separated words and every quoted run as one token with its quotes
\* removed and its blanks kept, an empty quoted run included.
C12_TokenizeSplitsAndUnquotes ==
    BalancedQuotes(line) => lineTokens = SplitFrom(line, 1)

----------------------------------------------------------------------------
(* Properties of the context manager *)

\* a step in which a direct modifySanity call returned
ModifyStep ==
    /\ opCount' = opCount + 1
    /\ lastOp'.name = "modifySanity"
    /\ ~lastOp'.threw

\* a step in which some call on one and the same manager ended
ManagerStep ==
    /\ opCount' = opCount + 1
    /\ lastOp'.name # "constructor"

\* clamp(x, lo, hi)
Clamp(x, lo, hi) ==
    IF x < lo THEN lo ELSE IF x > hi THEN hi ELSE x

IsPrefix(s, u) ==
    /\ Len(s) <= Len(u)
    /\ \A i \in 1..Len(s) : u[i] = s[i]

\* C14: after any sequence of registerAgent, updateAgentStatus and
\* modifySanity calls every registered agent has 0 <= current <= max, in its
\* tracker (current against max) and in its record (sanity against
\* maxSanity), also right after a registration with arbitrary values.
C14_SanityWithinRange ==
    built =>
        /\ \A id \in DOMAIN sanityTracker :
              /\ 0 <= sanityTracker[id].current
              /\ sanityTracker[id].current <= sanityTracker[id].max
        /\ \A id \in DOMAIN agents :
              /\ 0 <= agents[id].sanity
              /\ agents[id].sanity <= agents[id].maxSanity

\* C15: for every delta and all starting values, modifySanity on a
\* registered agent sets the tracker's current and the agent's sanity to
\* clamp(previous current + delta, 0, max), so that 0 <= current <= max.
C15_ModifySanityClamps ==
    [][ModifyStep =>
         LET id == lastOp'.id
             before == sanityTracker[id]
             after == sanityTracker'[id]
         IN  /\ after.current = Clamp(before.current + lastOp'.arg, 0, before.max)
             /\ agents'[id].sanity = after.current
             /\ 0 <= after.current
             /\ after.current <= after.max]_vars

\* C16: a modifySanity call that leaves the sanity at exactly 0 appends
\* exactly one breakpoint, of type complete_break and none of type critical,
\* and sets the agent's status to incapacitated.
C16_ZeroIsCompleteBreak ==
    [][(ModifyStep /\ sanityTracker'[lastOp'.id].current = 0) =>
         LET id == lastOp'.id
             old == sanityTracker[id].breakpoints
             new == sanityTracker'[id].breakpoints
         IN  /\ Len(new) = Len(old) + 1
             /\ IsPrefix(old, new)
             /\ new[Len(new)].type = "complete_break"
             /\ agents'[id].status = "incapacitated"]_vars

\* the scenario of C16: registered with 70 of 70, then delta -75
C16_Witness ==
    /\ lastOp.name = "modifySanity" /\ ~lastOp.threw /\ lastOp.arg = -75
    /\ sanityTracker[lastOp.id].max = 70
    /\ sanityTracker[lastOp.id].history =
           <<[timestamp |-> now, delta |-> -75, previous |-> 70,
              current |-> 0, reason |-> ""]>>
    /\ sanityTracker[lastOp.id].current = 0
    /\ Len(sanityTracker[lastOp.id].breakpoints) = 1
    /\ sanityTracker[lastOp.id].breakpoints[1].type = "complete_break"
    /\ agents[lastOp.id].status = "incapacitated"

\* C17: a modifySanity call whose result is not zero and strictly below a
\* quarter of max appends exactly one critical breakpoint and leaves the
\* agent's status as it was; a call whose result is at or above a quarter of
\* max appends no breakpoint.
C17_CriticalBelowQuarter ==
    [][ModifyStep =>
         LET id == lastOp'.id
             current == sanityTracker'[id].current
             max == sanityTracker'[id].max
             old == sanityTracker[id].breakpoints
             new == sanityTracker'[id].breakpoints
         IN  /\ (current # 0 /\ 4 * current < max) =>
                   /\ Len(new) = Len(old) + 1
                   /\ IsPrefix(old, new)
                   /\ new[Len(new)].type = "critical"
                   /\ agents'[id].status = agents[id].status
             /\ (4 * current >= max) => new = old]_vars

\* C18: every modifySanity call that returns, also one with delta 0 and one
\* whose delta the clamp absorbs, appends exactly one history entry holding
\* the delta, the previous current and the new current, and the entry's
\* previous is the current of the entry before it.
C18_HistoryEntryPerCall ==
    [][ModifyStep =>
         LET id == lastOp'.id
             old == sanityTracker[id].history
             new == sanityTracker'[id].history
             entry == new[Len(new)]
         IN  /\ Len(new) = Len(old) + 1
             /\ IsPrefix(old, new)
             /\ entry.delta = lastOp'.arg
             /\ entry.previous = sanityTracker[id].current
             /\ entry.current = sanityTracker'[id].current
             /\ (old # <<>>) => entry.previous = old[Len(old)].current]_vars

\* a call with delta 0 and then a call whose delta the clamp absorbed
C18_Witness ==
    /\ lastOp.name = "modifySanity" /\ ~lastOp.threw /\ lastOp.arg = 75
    /\ Len(sanityTracker[lastOp.id].history) = 2
    /\ sanityTracker[lastOp.id].history[1].delta = 0
    /\ sanityTracker[lastOp.id].history[2].delta = 75
    /\ sanityTracker[lastOp.id].history[2].previous =
           sanityTracker[lastOp.id].history[2].current

\* C19: for every agent id, over any sequence of registerAgent (also of an
\* id already registered), updateAgentStatus, modifySanity and
\* resetCampaign, the id's history and breakpoint lists never get shorter
\* and their entries are never rewritten.
C19_ListsOnlyGrow ==
    [][ManagerStep =>
         \A id \in DOMAIN sanityTracker :
            /\ id \in DOMAIN sanityTracker'
            /\ IsPrefix(sanityTracker[id].history, sanityTracker'[id].history)
            /\ IsPrefix(sanityTracker[id].breakpoints,
                        sanityTracker'[id].breakpoints)]_vars

\* C20: in every state of a manager the ids that have a tracker are the
\* ids of the registered agents.
C20_TrackersMatchAgents ==
    built => DOMAIN sanityTracker = DOMAIN agents

\* two agents registered, each with its tracker
C20_Witness ==
    /\ built
    /\ lastOp.name = "registerAgent"
    /\ DOMAIN agents = {"A", "AGENT-2"}
    /\ DOMAIN sanityTracker = {"A", "AGENT-2"}

\* C21: once an agent is registered, no call on the manager removes it from
\* the agent store.
C21_AgentsNeverDeleted ==
    [][ManagerStep => DOMAIN agents \subseteq DOMAIN agents']_vars

\* C22: constructing a manager with a non-empty config.agents roster
\* completes and leaves every roster agent in the agent store with its
\* tracker.
C22_RosterRegistered ==
    (lastOp.name = "constructor" /\ opCount = 1) =>
        /\ ~lastOp.threw
        /\ built
        /\ \A i \in 1..Len(lastOp.arg) :
              /\ lastOp.arg[i].id \in DOMAIN agents
              /\ lastOp.arg[i].id \in DOMAIN sanityTracker

\* a step in which a manageTeamDynamics call returned
DynamicsStep ==
    /\ opCount' = opCount + 1
    /\ lastOp'.name = "manageTeamDynamics"
    /\ ~lastOp'.threw

\* a step in which a call named an agent or a team that does not exist
MissingEntityStep ==
    /\ opCount' = opCount + 1
    /\ \/ /\ lastOp'.name \in {"updateAgentStatus", "modifySanity"}
          /\ lastOp'.id \notin DOMAIN agents
       \/ /\ lastOp'.name = "manageTeamDynamics"
          /\ lastOp'.id \notin DOMAIN teams

\* C23: updateAgentStatus and modifySanity with an agent id that is not
\* registered, and manageTeamDynamics with a team id that does not exist,
\* raise an error and leave every agent, tracker and team as it was.
C23_MissingEntityRaises ==
    [][MissingEntityStep =>
         /\ lastOp'.threw
         /\ agents' = agents
         /\ sanityTracker' = sanityTracker
         /\ teams' = teams]_vars

\* a call for a team that does not exist, made while an agent and a team do
C23_Witness ==
    /\ lastOp.name = "manageTeamDynamics" /\ lastOp.threw
    /\ lastOp.id \notin DOMAIN teams
    /\ "A" \in DOMAIN agents
    /\ "T" \in DOMAIN teams

\* C24: after any sequence of createTeam and manageTeamDynamics calls every
\* team's morale and cohesion lie in 0..100, also right after a createTeam
\* with arbitrary morale and cohesion.
C24_MoraleCohesionWithinRange ==
    \A id \in DOMAIN teams :
        /\ 0 <= teams[id].morale /\ teams[id].morale <= 100
        /\ 0 <= teams[id].cohesion /\ teams[id].cohesion <= 100

\* C25: a team's casualtyCount is never negative and no manageTeamDynamics
\* call lowers it, whatever casualty delta the call supplies.
C25_CasualtiesOnlyGrow ==
    [][DynamicsStep =>
         LET id == lastOp'.id
         IN  /\ teams'[id].casualtyCount >= teams[id].casualtyCount
             /\ teams'[id].casualtyCount >= 0]_vars

\* C26: on every manageTeamDynamics call, with m the supplied morale clamped
\* to 0..100 if one was supplied and the prior morale otherwise, the
\* resulting morale is max(0, m - min(30, 5 x casualtyCount)) if the
\* casualtyCount after adding the supplied delta is above 0, and m if it is
\* 0; the penalty is taken on every call.
C26_MoralePenalty ==
    [][DynamicsStep =>
         LET id == lastOp'.id
             d == lastOp'.arg
             m == IF "morale" \in DOMAIN d THEN Clamp(d.morale, 0, 100)
                  ELSE teams[id].morale
             count == teams[id].casualtyCount
                          + (IF "casualty" \in DOMAIN d THEN d.casualty ELSE 0)
             penalty == IF 5 * count < 30 THEN 5 * count ELSE 30
         IN  /\ teams'[id].casualtyCount = count
             /\ (count > 0) =>
                   teams'[id].morale = (IF m - penalty > 0 THEN m - penalty ELSE 0)
             /\ (count = 0) => teams'[id].morale = m]_vars

\* the penalty of one casualty taken again by a call that adds none
C26_Witness ==
    /\ lastOp.name = "manageTeamDynamics" /\ ~lastOp.threw
    /\ lastOp.arg = d_nothing
    /\ teams[lastOp.id].casualtyCount = 1
    /\ teams[lastOp.id].morale = 65

\* C27: for a team that started at casualtyCount 0, the second of two
\* manageTeamDynamics calls that each add one casualty leaves casualtyCount
\* at 2 and subtracts exactly min(30, 2 x 5) = 10 from the morale.
C27_SecondCasualtyCostsTen ==
    [][(/\ DynamicsStep
        /\ lastOp'.arg = d_casualty
        /\ lastOp.name = "manageTeamDynamics" /\ ~lastOp.threw
        /\ lastOp.id = lastOp'.id
        /\ lastOp.arg = d_casualty
        /\ teams[lastOp'.id].casualtyCount = 1) =>
         /\ teams'[lastOp'.id].casualtyCount = 2
         /\ teams'[lastOp'.id].morale = teams[lastOp'.id].morale - 10]_vars

\* a team created with morale 75 after its two casualties
C27_Witness ==
    /\ lastOp.name = "manageTeamDynamics" /\ ~lastOp.threw
    /\ lastOp.arg = d_casualty
    /\ teams[lastOp.id].casualtyCount = 2
    /\ teams[lastOp.id].morale = 60
    /\ opCount = 3

\* C28: the status that manageTeamDynamics returns is operational exactly
\* when the team's morale after the explicit update and the casualty penalty
\* of that call is above 50, and compromised otherwise.
C28_StatusFromMorale ==
    [][DynamicsStep =>
         /\ returned'.morale = teams'[lastOp'.id].morale
         /\ returned'.status \in {"operational", "compromised"}
         /\ returned'.status = "operational" <=> teams'[lastOp'.id].morale > 50]_vars

\* morale 55 supplied, one casualty: the team ends at 50 and is compromised
C28_Witness ==
    /\ lastOp.name = "manageTeamDynamics" /\ ~lastOp.threw
    /\ lastOp.arg = d_morale_casualty
    /\ teams[lastOp.id].morale = 50
    /\ returned.status = "compromised"

\* C29: every stored threat has a threatLevel in 1..10: createThreatAssessment
\* clamps a supplied threat_level below 1 or above 10, and an absent one,
\* into that interval.
C29_ThreatLevelWithinRange ==
    \A id \in DOMAIN threats :
        1 <= threats[id].threatLevel /\ threats[id].threatLevel <= 10

\* threat_level -3 was stored as 1 and threat_level 15 as 10
C29_Witness ==
    /\ lastOp.name = "createThreatAssessment" /\ ~lastOp.threw
    /\ lastOp.arg = th_huge
    /\ returned.threatLevel = 10
    /\ threats[returned.id] = returned
    /\ \E id \in DOMAIN threats : threats[id].threatLevel = 1

\* number of elements in the four narrative lists of n
Queued(n) ==
    Len(n.scenes) + Len(n.atmosphere) + Len(n.clues) + Len(n.revelations)

\* the narrative list that elements of the given type go to
ListOf(type) ==
    CASE type = "scene" -> "scenes"
      [] type = "atmosphere" -> "atmosphere"
      [] type = "clue" -> "clues"
      [] type = "revelation" -> "revelations"
      [] OTHER -> "none"

\* C30: injectNarrative places every injected element, with delivered false,
\* into exactly one of the four narrative lists, so that the number of
\* queued elements grows by exactly one per call; the list is the one of the
\* element's type.
C30_InjectedIntoOneList ==
    [][(/\ opCount' = opCount + 1
        /\ lastOp'.name = "injectNarrative"
        /\ ~lastOp'.threw) =>
         /\ returned'.delivered = FALSE
         /\ Queued(narrative') = Queued(narrative) + 1
         /\ \A list \in DOMAIN narrative :
               narrative'[list] = IF list = ListOf(returned'.type)
                                  THEN Append(narrative[list], returned')
                                  ELSE narrative[list]]_vars

----------------------------------------------------------------------------
(* Frame and range of the dispatcher's state *)

\* the call of this step is answered by the built-in handler of one of names
Runs(names) ==
    /\ CallStep
    /\ Tokens(input') # <<>>
    /\ CommandOf(input') \in names
    /\ CommandOf(input') \in DOMAIN commandRegistry
    /\ commandRegistry[CommandOf(input')] \in BuiltinHandlers

\* C36: only a successful INVESTIGATE or RESEARCH changes the operation
\* store, each adding exactly one record; only ENGAGE, CONTAIN, ALERT and
\* ESCALATE can change the threat level; STATUS, HELP, CONFIG, REPORT,
\* DEBRIEF, RETREAT and SANITIZE leave both as they were.
C36_CommandFrame ==
    [][CallStep =>
         /\ (agentStates' # agentStates) =>
               /\ Runs({w_INVESTIGATE, w_RESEARCH})
               /\ result'.status = "SUCCESS"
         /\ (Runs({w_INVESTIGATE, w_RESEARCH}) /\ Len(ArgsOf(input')) >= 1) =>
               /\ Cardinality(DOMAIN agentStates') =
                      Cardinality(DOMAIN agentStates) + 1
               /\ \A id \in DOMAIN agentStates :
                      id \in DOMAIN agentStates'
                          /\ agentStates'[id] = agentStates[id]
         /\ (threatLevel' # threatLevel) =>
               Runs({w_ENGAGE, w_CONTAIN, w_ALERT, w_ESCALATE})
         /\ Runs({w_STATUS, w_HELP, w_CONFIG, w_REPORT, w_DEBRIEF, w_RETREAT,
                  w_SANITIZE}) =>
               /\ agentStates' = agentStates
               /\ threatLevel' = threatLevel]_vars

\* C37: in every state that commands can reach the threat level is one of
\* NORMAL, ELEVATED, CRITICAL, and it is NORMAL before the first command.
C37_ThreatLevelDomain ==
    /\ threatLevel \in {"NORMAL", "ELEVATED", "CRITICAL"}
    /\ (calls = 0) => threatLevel = "NORMAL"

\* an ESCALATE issued when a CONTAIN had set the level to CRITICAL
C37_Witness ==
    /\ input = in_escalate
    /\ Len(logged) >= 2
    /\ logged[Len(logged) - 1].args = <<w_ORB, w_CRITICAL>>
    /\ logged[Len(logged)].command = w_ESCALATE
    /\ threatLevel = "CRITICAL"

\* C38: in every state of a manager the agent record mirrors its tracker:
\* agent.sanity is tracker.current and agent.maxSanity is tracker.max, after
\* any sequence of registerAgent, modifySanity and updateAgentStatus calls
\* with arbitrary update keys.
C38_RecordMirrorsTracker ==
    built =>
        \A id \in (DOMAIN agents) \cap (DOMAIN sanityTracker) :
            /\ agents[id].sanity = sanityTracker[id].current
            /\ agents[id].maxSanity = sanityTracker[id].max

\* C39: registering an agent without an id never overwrites a registered
\* agent or its tracker: the generated id differs from every id in the
\* store, whatever explicit ids were used before, so the number of agents
\* grows by exactly one.
C39_GeneratedIdIsFresh ==
    [][(/\ opCount' = opCount + 1
        /\ lastOp'.name = "registerAgent"
        /\ "id" \notin DOMAIN lastOp'.arg) =>
         /\ Cardinality(DOMAIN agents') = Cardinality(DOMAIN agents) + 1
         /\ \A id \in DOMAIN agents :
               id \in DOMAIN agents' /\ agents'[id] = agents[id]
         /\ \A id \in DOMAIN sanityTracker :
               id \in DOMAIN sanityTracker'
                   /\ sanityTracker'[id] = sanityTracker[id]]_vars

\* C34: getActiveThreats returns exactly the threats whose status is active
\* and, when filter.minThreatLevel is given, whose threatLevel is at least
\* that, in an order in which the threatLevel never goes up.
C34_ActiveThreatsSorted ==
    (lastOp.name = "getActiveThreats" /\ ~lastOp.threw) =>
        LET wanted == {id \in DOMAIN threats :
                          /\ threats[id].status = "active"
                          /\ ("minThreatLevel" \in DOMAIN lastOp.arg) =>
                                threats[id].threatLevel
                                    >= lastOp.arg.minThreatLevel}
        IN  /\ {returned[i] : i \in 1..Len(returned)} =
                   {threats[id] : id \in wanted}
            /\ Len(returned) = Cardinality(wanted)
            /\ \A i \in 1..Len(returned) : \A j \in i..Len(returned) :
                   returned[i].threatLevel >= returned[j].threatLevel

\* a threat of level 1 stored before one of level 10: both are returned
\* under the minimum 0, the later one first
C34_Witness ==
    /\ lastOp.name = "getActiveThreats" /\ ~lastOp.threw
    /\ lastOp.arg.minThreatLevel = 0
    /\ Len(returned) = 2
    /\ returned[1] = threats["THREAT-2"]
    /\ returned[1].threatLevel = 10
    /\ returned[2].threatLevel = 1

\* C35: getNarrativeState returns for each list its current length, as
\* recentScene the scene injected last (null when there is none) and as
\* pendingNarrative the undelivered elements of scenes, atmosphere, clues and
\* revelations, in that order and within a list in the order of injection.
C35_NarrativeState ==
    (lastOp.name = "getNarrativeState" /\ ~lastOp.threw) =>
        LET all == narrative.scenes \o narrative.atmosphere
                       \o narrative.clues \o narrative.revelations
            pendingAt == {i \in 1..Len(all) : ~all[i].delivered}
        IN  /\ \A list \in DOMAIN narrative :
                   returned[list] = Len(narrative[list])
            /\ returned.recentScene =
                   IF Len(narrative.scenes) = 0 THEN Null
                   ELSE narrative.scenes[Len(narrative.scenes)]
            /\ Len(returned.pendingNarrative) = Cardinality(pendingAt)
            /\ \A k \in 1..Len(returned.pendingNarrative) :
                   \E i \in pendingAt :
                       /\ Cardinality({j \in pendingAt : j < i}) = k - 1
                       /\ returned.pendingNarrative[k] = all[i]

\* two scenes were injected, the one without a type last
C35_Witness ==
    /\ lastOp.name = "getNarrativeState" /\ ~lastOp.threw
    /\ returned.scenes = 2
    /\ returned.recentScene.content = "fog"
    /\ returned.pendingNarrative[1].content = ""
    /\ Len(returned.pendingNarrative) = 2

\* what is read through the elements of an array of a snapshot
ValuesOf(held) ==
    [key \in DOMAIN held |-> held[key].value]

\* C31: a snapshot that buildContext returned and archived is immutable: no
\* later call on the manager (modifySanity, updateAgentStatus,
\* manageTeamDynamics, injectNarrative) and no change of the world state
\* alters the agent, team, threat or world-state values read through it.
C31_SnapshotImmutable ==
    [][ManagerStep =>
         \A i \in 1..Len(contextHistory) :
            /\ i <= Len(contextHistory')
            /\ ValuesOf(contextHistory'[i].agents) =
                   ValuesOf(contextHistory[i].agents)
            /\ ValuesOf(contextHistory'[i].teams) =
                   ValuesOf(contextHistory[i].teams)
            /\ contextHistory'[i].activeThreats = contextHistory[i].activeThreats
            /\ contextHistory'[i].worldState = contextHistory[i].worldState]_vars

----------------------------------------------------------------------------
(* Properties of the DAS_Agent *)

\* C32: recoverSanity restores sanity only out of the temporary-loss pool:
\* with type temporary it raises current by min(amount, temporaryLoss) and
\* lowers temporaryLoss by the same amount, with any other type or an empty
\* pool it restores nothing; the resulting current never exceeds maximum.
C32_RecoverFromTemporaryPool ==
    [][(dasCount' = dasCount + 1 /\ dasOp'.name = "recoverSanity") =>
         LET before == dasAgent.sanity
             after == dasAgent'.sanity
             restored == IF dasOp'.type = "temporary" /\ before.temporaryLoss > 0
                         THEN IF dasOp'.amount < before.temporaryLoss
                              THEN dasOp'.amount ELSE before.temporaryLoss
                         ELSE 0
         IN  /\ after.current = before.current + restored
             /\ after.temporaryLoss = before.temporaryLoss - restored
             /\ after.permanentLoss = before.permanentLoss
             /\ after.current <= after.maximum]_vars

\* C33: after any sequence of addOrUpdateBond calls with arbitrary strength
\* arguments every bond's strength lies in 0..10.
C33_BondStrengthWithinRange ==
    \A i \in 1..Len(dasAgent.bonds) :
        0 <= dasAgent.bonds[i].strength /\ dasAgent.bonds[i].strength <= 10

\* C40: for non-negative amounts, any sequence of takeSanityDamage and
\* recoverSanity calls conserves sanity: current + temporaryLoss +
\* permanentLoss stays the agent's initial current (70), so that recovery
\* never raises current above it, and current stays within 0..maximum.
C40_SanityConserved ==
    /\ dasAgent.sanity.current + dasAgent.sanity.temporaryLoss
           + dasAgent.sanity.permanentLoss = 70
    /\ 0 <= dasAgent.sanity.current
    /\ dasAgent.sanity.current <= dasAgent.sanity.maximum


====
